---- MODULE Spec2Model ----
(***************************************************************************)
(* Sheet Metal Client Hub: the cost resolution engine (calculator.py),     *)
(* the pricing entry points (logic.py, gui.py) and the part registry       *)
(* (file_handler.py, utils.py).                                            *)
(*                                                                         *)
(* Numbers.  Python floats are modelled by integers: every rate, dimension *)
(* and quantity drawn below is a whole number, on which the float          *)
(* arithmetic of the code is exact.  A quote total, which the code         *)
(* computes as total * (1 + margin / 100), is carried in hundredths        *)
(* (total * (100 + margin)), which is exact too.                           *)
(*                                                                         *)
(* Scope.  The functions are modelled as their bodies read.  Module-level  *)
(* set-up is left out: calculator.py calls os.path.join with no            *)
(* `import os`, and gui.py imports a FileHandler class that                *)
(* file_handler.py does not define; save_output, load_rates and            *)
(* check_duplicate_part_id are the module-level functions of               *)
(* file_handler.py, called as the file_handler object's methods.           *)
(***************************************************************************)
EXTENDS Integers, Sequences, FiniteSets, TLC

VARIABLES
    rates,        \* the rate table handed to the pricing code (rates_global.txt)
    registry,     \* data/output.txt: the sequence of its lines, each a sequence of fields
    added_parts,  \* logic.py's added_parts list
    submit_state, \* gui.py: state of the Submit / Add Another Part buttons
    last_part_id, \* gui.py: self.last_part_id
    last_total_cost, \* gui.py: self.last_total_cost
    testing_mode, \* gui.py: TESTING_MODE, the environment's when gui.py was loaded
    role,         \* gui.py: self.role
    screen,       \* gui.py: the screen the last create_*_screen built
    call          \* the last operation run: its arguments and its outcome

vars == <<rates, registry, added_parts, submit_state, last_part_id, last_total_cost,
          testing_mode, role, screen, call>>

(***************************************************************************)
(* Bounds of the model.                                                    *)
(***************************************************************************)
MaxRegistry == 2   \* lines of output.txt
MaxAdded == 2      \* entries of added_parts
MaxIncrease == 2   \* units by which an operation's quantity is raised

None == "<None>"   \* Python's None

(***************************************************************************)
(* str.lower() on the strings the model uses.                              *)
(***************************************************************************)
Lower(s) ==
    CASE s = "Mild Steel" -> "mild steel"
      [] s = "Aluminium" -> "aluminium"
      [] s = "Stainless Steel" -> "stainless steel"
      [] s = "Copper" -> "copper"
      [] s = "N/A" -> "n/a"
      [] s = "Bolts" -> "bolts"
      [] s = "Rivets" -> "rivets"
      [] s = "Nails" -> "nails"
      [] s = "Milling" -> "milling"
      [] s = "Cutting" -> "cutting"
      [] s = "Bending" -> "bending"
      [] s = "Welding" -> "welding"
      [] s = "Assembly" -> "assembly"
      [] s = "Finishing" -> "finishing"
      [] s = "Drilling" -> "drilling"
      [] s = "Punching" -> "punching"
      [] s = "Grinding" -> "grinding"
      [] s = "Coating" -> "coating"
      [] s = "Inspection" -> "inspection"
      [] s = "MIG" -> "mig"
      [] s = "TIG" -> "tig"
      [] s = "Painting" -> "painting"
      [] s = "None" -> "none"
      [] OTHER -> s

(***************************************************************************)
(* calculator.py, calculate_cost                                           *)
(***************************************************************************)

\* The chain of lines 47-68, were a name it does not know priced as cutting.
RateKeySkipUnknown(work_centre, sub_option) ==
    CASE work_centre = "Cutting" -> "cutting_rate_per_mm"
      [] work_centre = "Bending" -> "bending_rate_per_bend"
      [] work_centre = "Welding" -> IF sub_option = "MIG" THEN "mig_welding_rate_per_mm"
                                    ELSE "tig_welding_rate_per_mm"
      [] work_centre = "Assembly" -> "assembly_rate_per_component"
      [] work_centre = "Finishing" -> "finishing_rate_per_mm²"
      [] work_centre = "Drilling" -> "drilling_rate_per_hole"
      [] work_centre = "Punching" -> "punching_rate_per_punch"
      [] work_centre = "Grinding" -> "grinding_rate_per_mm²"
      [] work_centre = "Coating" -> IF sub_option = "Painting" THEN "painting_rate_per_mm²"
                                    ELSE "coating_rate_per_mm²"
      [] work_centre = "Inspection" -> "inspection_rate_per_unit"
      [] OTHER -> "cutting_rate_per_mm"

\* The chain of lines 47-68, were the inspection rate keyed per inspection.
RateKeyPerInspection(work_centre, sub_option) ==
    CASE work_centre = "Cutting" -> "cutting_rate_per_mm"
      [] work_centre = "Bending" -> "bending_rate_per_bend"
      [] work_centre = "Welding" -> IF sub_option = "MIG" THEN "mig_welding_rate_per_mm"
                                    ELSE "tig_welding_rate_per_mm"
      [] work_centre = "Assembly" -> "assembly_rate_per_component"
      [] work_centre = "Finishing" -> "finishing_rate_per_mm²"
      [] work_centre = "Drilling" -> "drilling_rate_per_hole"
      [] work_centre = "Punching" -> "punching_rate_per_punch"
      [] work_centre = "Grinding" -> "grinding_rate_per_mm²"
      [] work_centre = "Coating" -> IF sub_option = "Painting" THEN "painting_rate_per_mm²"
                                    ELSE "coating_rate_per_mm²"
      [] work_centre = "Inspection" -> "inspection_rate_per_inspection"
      [] OTHER -> None

\* Lines 47-68: the if/elif chain that picks an operation's rate key
\* (None when no branch matches).
rate_key(work_centre, sub_option) ==
    CASE work_centre = "Cutting" -> "cutting_rate_per_mm"
      [] work_centre = "Bending" -> "bending_rate_per_bend"
      [] work_centre = "Welding" -> IF sub_option = "MIG" THEN "mig_welding_rate_per_mm"
                                    ELSE "tig_welding_rate_per_mm"
      [] work_centre = "Assembly" -> "assembly_rate_per_component"
      [] work_centre = "Finishing" -> "finishing_rate_per_mm²"
      [] work_centre = "Drilling" -> "drilling_rate_per_hole"
      [] work_centre = "Punching" -> "punching_rate_per_punch"
      [] work_centre = "Grinding" -> "grinding_rate_per_mm²"
      [] work_centre = "Coating" -> IF sub_option = "Painting" THEN "painting_rate_per_mm²"
                                    ELSE "coating_rate_per_mm²"
      [] work_centre = "Inspection" -> "inspection_rate_per_unit"
      [] OTHER -> None

\* The key under which the material rate is looked up: material.lower().
material_rate_key(material) == Lower(material)

\* The key of a fastener's rate.
fastener_rate_key(fastener_type) == Lower(fastener_type) \o "_rate_per_unit"

\* The outcome of one of calculate_cost's three stages: ok, with the cost
\* added to total_cost, or the early `return 0.0`, with the key that was logged.
Added(cost) == [ok |-> TRUE, cost |-> cost, missing |-> None]
Missing(key) == [ok |-> FALSE, cost |-> 0, missing |-> key]

\* A rate entry is the float load_rates reads, or a dict with the fields
\* 'type', 'value' and 'sub_value' (logic.py, update_rate).  The table holds
\* a dict entry flattened: its value under the key, its other fields under
\* key.type and key.sub_value.
is_dict(r, key) == (key \o ".type") \in DOMAIN r

\* rates[key] * n: the product, or the TypeError of a dict times a number,
\* which the handler of lines 95-97 turns into `return 0.0` with no key logged.
TypeError == [ok |-> FALSE, cost |-> 0, missing |-> None]
Times(r, key, n) == IF is_dict(r, key) THEN TypeError ELSE Added(r[key] * n)

\* "Material cost for single parts" (lines 36-44).
material_cost(part_data, r) ==
    IF part_data.part_type = "Single Part" /\ part_data.material # "N/A"
    THEN LET key == material_rate_key(part_data.material)
         IN  IF key \notin DOMAIN r
             THEN Missing(key)
             ELSE Times(r, key, part_data.thickness * part_data.length
                                  * part_data.width * part_data.quantity)
    ELSE Added(0)

\* "WorkCentre costs" (lines 46-76): the loop from its i-th operation on.
RECURSIVE work_centres_cost(_, _, _, _)
work_centres_cost(work_centres, quantity, r, i) ==
    IF i > Len(work_centres)
    THEN Added(0)
    ELSE LET work_centre == work_centres[i][1]
             qty == work_centres[i][2]
             sub_option == work_centres[i][3]
             key == rate_key(work_centre, sub_option)
         IN  IF key # None /\ key \in DOMAIN r
             THEN LET work_centre_cost == Times(r, key, qty * quantity)
                      rest == work_centres_cost(work_centres, quantity, r, i + 1)
                  IN  IF ~work_centre_cost.ok THEN work_centre_cost
                      ELSE IF rest.ok
                      THEN Added(work_centre_cost.cost + rest.cost)
                      ELSE rest
             ELSE Missing(IF key # None THEN key ELSE Lower(work_centre) \o "_rate")

\* "Fastener costs" (lines 78-87): the loop from its i-th fastener on.
RECURSIVE fasteners_cost(_, _, _, _)
fasteners_cost(fasteners, quantity, r, i) ==
    IF i > Len(fasteners)
    THEN Added(0)
    ELSE LET key == fastener_rate_key(fasteners[i][1])
             count == fasteners[i][2]
         IN  IF key \in DOMAIN r
             THEN LET fastener_cost == Times(r, key, count * quantity)
                      rest == fasteners_cost(fasteners, quantity, r, i + 1)
                  IN  IF ~fastener_cost.ok THEN fastener_cost
                      ELSE IF rest.ok
                      THEN Added(fastener_cost.cost + rest.cost)
                      ELSE rest
             ELSE Missing(key)

\* calculate_cost with the reason of a 0.0: [ret, failed, missing].
\* ret is what the function returns; failed tells an early `return 0.0`
\* from a total that was computed, and missing is the key it logged.
CostOutcome(part_data, r) ==
    LET m == material_cost(part_data, r)
        w == work_centres_cost(part_data.work_centres, part_data.quantity, r, 1)
        f == fasteners_cost(part_data.fastener_types_and_counts, part_data.quantity, r, 1)
    IN  IF ~m.ok THEN [ret |-> 0, failed |-> TRUE, missing |-> m.missing]
        ELSE IF ~w.ok THEN [ret |-> 0, failed |-> TRUE, missing |-> w.missing]
        ELSE IF ~f.ok THEN [ret |-> 0, failed |-> TRUE, missing |-> f.missing]
        ELSE [ret |-> m.cost + w.cost + f.cost
                        + part_data.catalogue_cost * part_data.quantity,
              failed |-> FALSE, missing |-> None]

calculate_cost(part_data, r) == CostOutcome(part_data, r).ret

(***************************************************************************)
(* The part registry, data/output.txt (file_handler.py, utils.py)          *)
(***************************************************************************)

\* str.split(',') of a revision: the only field of a line that may hold a comma.
SplitComma(s) == IF s = "B,1" THEN <<"B", "1">> ELSE <<s>>

\* The line save_output writes, as line.strip().split(',') reads it back.
OutputLine(part_id, revision, material, thickness, length, width, quantity, total_cost) ==
    <<part_id>> \o SplitComma(revision)
        \o <<material, thickness, length, width, quantity, total_cost, "timestamp">>

\* (The same, were no line of the file ever taken for the part's.)
NeverDuplicate(part_id, reg) == FALSE

\* file_handler.check_duplicate_part_id
check_duplicate_part_id(part_id, reg) ==
    \E i \in 1..Len(reg) : reg[i][1] = part_id

\* file_handler.save_output: the registry after the call.
save_output(reg, part_id, revision, material, thickness, length, width, quantity, total_cost) ==
    IF check_duplicate_part_id(part_id, reg)
    THEN reg
    ELSE Append(reg, OutputLine(part_id, revision, material, thickness, length, width,
                                quantity, total_cost))

\* utils.load_existing_parts: the first field of every line.
load_existing_parts(reg) == {reg[i][1] : i \in 1..Len(reg)}

\* utils.load_part_cost: float(parts[7]) of the first line of the part, or None.
HasCost(part_id, reg) ==
    \E i \in 1..Len(reg) : Len(reg[i]) >= 8 /\ reg[i][1] = part_id

load_part_cost(part_id, reg) ==
    LET i == CHOOSE j \in 1..Len(reg) :
                 /\ Len(reg[j]) >= 8 /\ reg[j][1] = part_id
                 /\ \A k \in 1..(j - 1) : ~(Len(reg[k]) >= 8 /\ reg[k][1] = part_id)
    IN  reg[i][8]

\* data/parts_catalogue.txt as utils.load_parts_catalogue returns it.
parts_catalogue == <<<<"FAS-001", "M6 bolt", 2>>>>

\* Part ids: startswith(prefix) and ^prefix[A-Za-z0-9]{5,15}$.
MatchesIdFormat(part_id, expected_prefix) ==
    \/ expected_prefix = "PART-" /\ part_id \in {"PART-AAAAA", "PART-BBBBB"}
    \/ expected_prefix = "ASSY-" /\ part_id \in {"ASSY-CCCCC"}

(***************************************************************************)
(* logic.py, calculate_and_save                                            *)
(*                                                                         *)
(* part_specs is [part_type, part_id, revision, specs, work_centres] with  *)
(* specs = [material, thickness, length, width, quantity, sub_parts,       *)
(* fastener_types_and_counts]; top_level_assembly and weldment_indicator   *)
(* are copied into part_specs_full and read by nothing, and are left out.  *)
(* An entry of sub_parts is a tuple: (sub_part, quantity) for the loop of  *)
(* line 46, (item_id, description, count) for the loops of lines 66, 75.   *)
(***************************************************************************)

\* (not sub_parts, were no list taken for empty.)
NeverEmpty(sub_parts) == FALSE

\* logic.py line 41, gui.py line 934: `not sub_parts`.
not_sub_parts(sub_parts) == sub_parts = <<>>

Raise(msg) == [raised |-> msg, ret |-> 0, calc |-> FALSE, failed |-> FALSE, missing |-> None]

\* Lines 44-49: the first sub-part that fails to unpack or is not registered.
\* (The same, were the membership in existing_parts not tested.)
CheckSubPartsUnpackOnly(sub_parts, existing_parts, i) ==
    IF \E j \in 1..Len(sub_parts) : Len(sub_parts[j]) # 2
    THEN "too many values to unpack (expected 2)"
    ELSE None

RECURSIVE CheckSubPartsExist(_, _, _)
CheckSubPartsExist(sub_parts, existing_parts, i) ==
    IF i > Len(sub_parts) THEN None
    ELSE IF Len(sub_parts[i]) # 2
         THEN "too many values to unpack (expected 2)"
         ELSE IF sub_parts[i][1] \notin existing_parts
              THEN "Sub-part " \o sub_parts[i][1] \o " does not exist in the system"
              ELSE CheckSubPartsExist(sub_parts, existing_parts, i + 1)

\* Lines 65-69: the first entry that fails to unpack or counts more than 100.
RECURSIVE CheckCounts(_, _)
CheckCounts(sub_parts, i) ==
    IF i > Len(sub_parts) THEN None
    ELSE IF Len(sub_parts[i]) # 3
         THEN "not enough values to unpack (expected 3, got 2)"
         ELSE IF sub_parts[i][3] > 100
              THEN "Fastener count for " \o sub_parts[i][1] \o " must be 0-100"
              ELSE CheckCounts(sub_parts, i + 1)

\* The price of the first catalogue line of the item, 0 when it has none.
RECURSIVE CataloguePrice(_, _, _)
CataloguePrice(item_id, catalogue, j) ==
    IF j > Len(catalogue) THEN 0
    ELSE IF catalogue[j][1] = item_id THEN catalogue[j][3]
         ELSE CataloguePrice(item_id, catalogue, j + 1)

\* Lines 71-80: catalogue_cost over the entries from the i-th on.
RECURSIVE catalogue_cost(_, _, _)
catalogue_cost(sub_parts, catalogue, i) ==
    IF i > Len(sub_parts) THEN 0
    ELSE CataloguePrice(sub_parts[i][1], catalogue, 1) * sub_parts[i][3]
             + catalogue_cost(sub_parts, catalogue, i + 1)

\* (The same, were the thickness not validated.)
ValidationNoThickness(part_type, specs) ==
    IF part_type = "Single Part"
    THEN IF ~(50 <= specs.length /\ specs.length <= 3000)
         THEN "Lay-Flat length must be between 50 and 3000 mm"
         ELSE IF ~(50 <= specs.width /\ specs.width <= 1500)
         THEN "Lay-Flat width must be between 50 and 1500 mm"
         ELSE IF ~(1 <= specs.quantity)
         THEN "Quantity must be a positive integer"
         ELSE None
    ELSE IF ~(1 <= specs.quantity)
         THEN "Quantity must be a positive integer"
         ELSE None

\* Lines 26-32, 39, 51-54: the first range validation that fails.
Validation(part_type, specs) ==
    IF part_type = "Single Part"
    THEN IF ~(50 <= specs.length /\ specs.length <= 3000)
         THEN "Lay-Flat length must be between 50 and 3000 mm"
         ELSE IF ~(50 <= specs.width /\ specs.width <= 1500)
         THEN "Lay-Flat width must be between 50 and 1500 mm"
         ELSE IF ~(1 <= specs.thickness /\ specs.thickness <= 3)
         THEN "Thickness must be between 1.0 and 3.0 mm"
         ELSE IF ~(1 <= specs.quantity)
         THEN "Quantity must be a positive integer"
         ELSE None
    ELSE IF ~(1 <= specs.quantity)
         THEN "Quantity must be a positive integer"
         ELSE None

\* Line 37: the material name handed to calculate_cost.
material_for_rates(material) ==
    CASE Lower(material) = "mild steel" -> "mild_steel_rate"
      [] Lower(material) = "aluminium" -> "aluminium_rate"
      [] Lower(material) = "stainless steel" -> "stainless_steel_rate"

\* Lines 82-89: part_specs_full.
part_specs_full(part_specs) ==
    LET specs == part_specs.specs
        single == part_specs.part_type = "Single Part"
    IN  [part_type |-> part_specs.part_type,
         material |-> IF single THEN material_for_rates(specs.material) ELSE "N/A",
         thickness |-> specs.thickness, length |-> specs.length, width |-> specs.width,
         quantity |-> specs.quantity,
         catalogue_cost |-> IF single THEN catalogue_cost(specs.sub_parts, parts_catalogue, 1)
                            ELSE 0,
         work_centres |-> part_specs.work_centres,
         fastener_types_and_counts |-> specs.fastener_types_and_counts]

\* Lines 95-98: the call of calculate_cost and the test of its result.
\* (The same, were the result not tested against 0.0.)
PriceNoZeroTest(full, r) ==
    LET c == CostOutcome(full, r)
    IN  [raised |-> None, ret |-> c.ret, calc |-> TRUE, failed |-> c.failed,
         missing |-> c.missing]

Price(full, r) ==
    LET c == CostOutcome(full, r)
    IN  IF c.ret = 0
        THEN [raised |-> "Cost calculation failed, check inputs or rates", ret |-> 0,
              calc |-> TRUE, failed |-> c.failed, missing |-> c.missing]
        ELSE [raised |-> None, ret |-> c.ret, calc |-> TRUE, failed |-> FALSE,
              missing |-> None]

\* Lines 22-98: what the call raises, or the cost it goes on to save.
\* raised: the message of the ValueError, None when the call returns;
\* ret: the total cost; calc: calculate_cost was called; failed, missing:
\* calculate_cost's early return and the key it logged.
LogicOutcome(part_specs, reg, r) ==
    LET part_type == part_specs.part_type
        part_id == part_specs.part_id
        specs == part_specs.specs
        single == part_type = "Single Part"
        expected_prefix == IF single THEN "PART-" ELSE "ASSY-"
        exist == CheckSubPartsExist(specs.sub_parts, load_existing_parts(reg), 1)
        counts == CheckCounts(specs.sub_parts, 1)
        invalid == Validation(part_type, specs)
    IN  IF part_id = "" \/ part_specs.revision = ""
        THEN Raise("Part ID and Revision are required")
        ELSE IF single /\ Lower(specs.material) \notin {"mild steel", "aluminium", "stainless steel"}
        THEN Raise("Material must be 'Mild Steel', 'Aluminium', or 'Stainless Steel'")
        ELSE IF ~single /\ not_sub_parts(specs.sub_parts)
        THEN Raise("At least one sub-part must be selected for an assembly")
        ELSE IF ~single /\ exist # None
        THEN Raise(exist)
        ELSE IF invalid # None
        THEN Raise(invalid)
        ELSE IF ~MatchesIdFormat(part_id, expected_prefix)
        THEN Raise("Part ID must be " \o expected_prefix \o "[5-15 alphanumeric]")
        ELSE IF part_specs.work_centres = <<>>
        THEN Raise("At least one WorkCentre operation must be selected")
        ELSE IF counts # None
        THEN Raise(counts)
        ELSE IF DOMAIN r = {}
        THEN Raise("Failed to load rates from data/rates.json")
        ELSE Price(part_specs_full(part_specs), r)

(***************************************************************************)
(* gui.py, SheetMetalClientHub.calculate_and_save                          *)
(*                                                                         *)
(* The widgets read by the handler are its input w: [tab, part_id,         *)
(* revision, material, thickness, length, width, quantity, fastener_type,  *)
(* fastener_count, sub_parts, work_centres].  The text of a numeric entry  *)
(* is <<n>> when int()/float() parses it to n and <<>> when it raises      *)
(* ValueError.  work_centres holds one (work centre, quantity, sub-option) *)
(* row per operation slot, "" for a slot left unselected.                  *)
(***************************************************************************)

IsNumber(text) == Len(text) = 1
Value(text) == text[1]

\* gui.load_existing_parts: the ids of the lines that match ^(PART|ASSY)-[A-Za-z0-9]{5,15}$.
gui_load_existing_parts(reg) ==
    {reg[i][1] : i \in {j \in 1..Len(reg) :
                          MatchesIdFormat(reg[j][1], "PART-") \/ MatchesIdFormat(reg[j][1], "ASSY-")}}

\* item_id.split(':')[0].strip() of a dropdown label "id: description".
LabelItemId(label) == IF label = "FAS-001: M6 bolt" THEN "FAS-001" ELSE label

\* Lines 1003-1012: the catalogue cost of a single part, one price per selected item.
RECURSIVE gui_catalogue_cost(_, _, _)
gui_catalogue_cost(sub_parts, catalogue, i) ==
    IF i > Len(sub_parts) THEN 0
    ELSE CataloguePrice(LabelItemId(sub_parts[i]), catalogue, 1)
             + gui_catalogue_cost(sub_parts, catalogue, i + 1)

\* Lines 878-915: the first operation row that is rejected.
RECURSIVE CheckRows(_, _)
CheckRows(rows, i) ==
    IF i > Len(rows) THEN None
    ELSE IF rows[i][1] = "" THEN CheckRows(rows, i + 1)
    ELSE IF rows[i][2] = 0
         THEN "Quantity for " \o rows[i][1] \o " must be selected"
    ELSE IF rows[i][1] = "Welding" /\ rows[i][3] = "None"
         THEN "Weld type must be selected for Welding"
    ELSE IF rows[i][1] = "Coating" /\ rows[i][3] = "None"
         THEN "Surface treatment type must be selected for Coating"
    ELSE CheckRows(rows, i + 1)

\* Lines 977-989: the first selected sub-part that is not registered.
RECURSIVE gui_check_sub_parts(_, _, _)
gui_check_sub_parts(sub_parts, existing_parts, i) ==
    IF i > Len(sub_parts) THEN None
    ELSE IF sub_parts[i] \notin existing_parts
         THEN "Sub-part " \o sub_parts[i] \o " does not exist in the system"
         ELSE gui_check_sub_parts(sub_parts, existing_parts, i + 1)

\* Lines 829, 863: fastener_types_and_counts (read only once the count parses).
gui_fasteners(w) ==
    IF w.tab = 1 /\ w.fastener_type # "None" /\ Value(w.fastener_count) > 0
    THEN <<<<w.fastener_type, Value(w.fastener_count)>>>>
    ELSE <<>>

\* Lines 1014-1029: part_specs.
gui_part_specs(w) ==
    LET single == w.tab = 1
    IN  [part_type |-> IF single THEN "Single Part" ELSE "Assembly",
         material |-> IF single THEN Lower(w.material) ELSE "N/A",
         thickness |-> IF single THEN w.thickness ELSE 0,
         length |-> IF single THEN w.length ELSE 0,
         width |-> IF single THEN w.width ELSE 0,
         quantity |-> Value(w.quantity),
         catalogue_cost |-> IF single THEN gui_catalogue_cost(w.sub_parts, parts_catalogue, 1)
                            ELSE 0,
         work_centres |-> SelectSeq(w.work_centres, LAMBDA row : row[1] # ""),
         fastener_types_and_counts |-> gui_fasteners(w)]

\* Lines 757-1053: the error message shown (raised), or the cost the handler goes on to save.
GuiOutcome(w, reg, r) ==
    LET single == w.tab = 1
        expected_prefix == IF single THEN "PART-" ELSE "ASSY-"
        rows == CheckRows(w.work_centres, 1)
        exist == gui_check_sub_parts(w.sub_parts, gui_load_existing_parts(reg), 1)
    IN  IF ~IsNumber(w.quantity)
        THEN Raise(IF single
                   THEN "Invalid numeric input for dimensions, thickness, or quantity"
                   ELSE "Invalid quantity input")
        ELSE IF single /\ ~(50 <= w.length /\ w.length <= 3000)
        THEN Raise("Lay-Flat length must be between 50 and 3000 mm")
        ELSE IF single /\ ~(50 <= w.width /\ w.width <= 1500)
        THEN Raise("Lay-Flat width must be between 50 and 1500 mm")
        ELSE IF single /\ ~(1 <= w.thickness /\ w.thickness <= 3)
        THEN Raise("Thickness must be between 1.0 and 3.0 mm")
        ELSE IF Value(w.quantity) <= 0
        THEN Raise("Quantity must be a positive integer")
        ELSE IF single /\ w.fastener_type # "None" /\ ~IsNumber(w.fastener_count)
        THEN Raise("Invalid input: Quantity must be valid")
        ELSE IF w.part_id = "" \/ w.revision = ""
        THEN Raise("Part ID and Revision are required")
        ELSE IF rows # None
        THEN Raise(rows)
        ELSE IF SelectSeq(w.work_centres, LAMBDA row : row[1] # "") = <<>>
        THEN Raise("At least one WorkCentre operation must be selected")
        ELSE IF ~single /\ not_sub_parts(w.sub_parts)
        THEN Raise("At least one sub-part must be selected for an assembly")
        ELSE IF ~MatchesIdFormat(w.part_id, expected_prefix)
        THEN Raise("Part ID must be " \o expected_prefix \o "[5-15 alphanumeric]")
        ELSE IF single /\ Lower(w.material) \notin {"mild steel", "aluminium", "stainless steel"}
        THEN Raise("Material must be 'Mild Steel', 'Aluminium', or 'Stainless Steel'")
        ELSE IF ~single /\ exist # None
        THEN Raise(exist)
        ELSE IF gui_fasteners(w) # <<>> /\ gui_fasteners(w)[1][2] > 100
        THEN Raise("Fastener count for " \o w.fastener_type \o " must be 0-100")
        ELSE IF DOMAIN r = {}
        THEN Raise("Failed to load rates from data/rates_global.txt")
        ELSE Price(gui_part_specs(w), r)

(***************************************************************************)
(* logic.py, generate_quote                                                *)
(***************************************************************************)

\* Lines 135-145: total_cost over added_parts from the i-th entry on; None
\* (the raise of line 141) when a part has no cost in the registry.
\* (part_total, were the quantity left out.)
PartTotalNoQuantity(part, reg) == load_part_cost(part.part_id, reg)

part_total(part, reg) == load_part_cost(part.part_id, reg) * part.quantity

RECURSIVE quote_total(_, _, _)
quote_total(parts, reg, i) ==
    IF i > Len(parts) THEN 0
    ELSE part_total(parts[i], reg) + quote_total(parts, reg, i + 1)

\* The first part of the list whose cost load_part_cost does not find.
MissingCost(parts, reg) ==
    IF \E i \in 1..Len(parts) : ~HasCost(parts[i].part_id, reg)
    THEN LET i == CHOOSE j \in 1..Len(parts) :
                      /\ ~HasCost(parts[j].part_id, reg)
                      /\ \A k \in 1..(j - 1) : HasCost(parts[k].part_id, reg)
         IN  parts[i].part_id
    ELSE None

\* Line 147, in hundredths: total_cost * (1 + profit_margin / 100).
final_cost(total_cost, profit_margin) == total_cost * (100 + profit_margin)

\* Lines 116-130: the message of the first check that fails, or None.
quote_validation(customer_name, profit_margin, parts) ==
    IF ~IsNumber(profit_margin) THEN "Profit margin must be a valid number"
    ELSE IF customer_name = "" THEN "Customer name cannot be empty"
    ELSE IF Value(profit_margin) < 0 THEN "Profit margin cannot be negative"
    ELSE IF parts = <<>> THEN "No parts added to quote"
    ELSE None

\* Lines 116-147: what the call raises, or the final cost it saves and returns.
\* (The same, were a negative margin let through.)
QuoteOutcomeAnyMargin(customer_name, profit_margin, parts, reg) ==
    IF ~IsNumber(profit_margin)
    THEN Raise("Profit margin must be a valid number")
    ELSE IF customer_name = ""
    THEN Raise("Customer name cannot be empty")
    ELSE IF parts = <<>>
    THEN Raise("No parts added to quote")
    ELSE IF MissingCost(parts, reg) # None
    THEN Raise("Cost not found for part " \o MissingCost(parts, reg))
    ELSE [raised |-> None, ret |-> final_cost(quote_total(parts, reg, 1), Value(profit_margin)),
          calc |-> FALSE, failed |-> FALSE, missing |-> None]

QuoteOutcome(customer_name, profit_margin, parts, reg) ==
    IF ~IsNumber(profit_margin)
    THEN Raise("Profit margin must be a valid number")
    ELSE IF customer_name = ""
    THEN Raise("Customer name cannot be empty")
    ELSE IF Value(profit_margin) < 0
    THEN Raise("Profit margin cannot be negative")
    ELSE IF parts = <<>>
    THEN Raise("No parts added to quote")
    ELSE IF MissingCost(parts, reg) # None
    THEN Raise("Cost not found for part " \o MissingCost(parts, reg))
    ELSE [raised |-> None, ret |-> final_cost(quote_total(parts, reg, 1), Value(profit_margin)),
          calc |-> FALSE, failed |-> FALSE, missing |-> None]

(***************************************************************************)
(* gui.py, SheetMetalClientHub.generate_quote(part_id, total_cost)         *)
(***************************************************************************)

\* Lines 1112-1140: the error message shown (raised), or the quote total
\* save_quote writes (file_handler.py line 165), in hundredths.
GuiQuoteOutcome(customer_name, profit_margin, total_cost) ==
    IF customer_name = ""
    THEN Raise("Customer name cannot be empty")
    ELSE IF ~IsNumber(profit_margin)
    THEN Raise("Invalid profit margin: please enter a numeric value")
    ELSE IF Value(profit_margin) < 0
    THEN Raise("Profit margin cannot be negative")
    ELSE [raised |-> None, ret |-> final_cost(total_cost, Value(profit_margin)),
          calc |-> FALSE, failed |-> FALSE, missing |-> None]

(***************************************************************************)
(* The inputs of the model                                                 *)
(***************************************************************************)

\* Rate tables as file_handler.load_rates returns them: key -> number.
OperationRates ==
    ("cutting_rate_per_mm" :> 1) @@ ("bending_rate_per_bend" :> 5)
    @@ ("mig_welding_rate_per_mm" :> 2) @@ ("tig_welding_rate_per_mm" :> 3)
    @@ ("painting_rate_per_mm²" :> 1) @@ ("coating_rate_per_mm²" :> 2)
    @@ ("assembly_rate_per_component" :> 8) @@ ("finishing_rate_per_mm²" :> 2)
    @@ ("drilling_rate_per_hole" :> 1) @@ ("punching_rate_per_punch" :> 2)
    @@ ("grinding_rate_per_mm²" :> 3) @@ ("inspection_rate_per_unit" :> 2)
    @@ ("bolts_rate_per_unit" :> 1) @@ ("rivets_rate_per_unit" :> 1)

MaterialRates ==
    ("mild_steel_rate" :> 1) @@ ("aluminium_rate" :> 2) @@ ("stainless_steel_rate" :> 3)

\* The table of the system tests; the same with the material rates also under
\* the materials' lower-cased display names; the same with the inspection rate
\* under inspection_rate_per_inspection; the table load_rates writes when
\* rates_global.txt does not exist; and the empty table of a failed load.
FullRates == MaterialRates @@ OperationRates
DisplayNameRates == ("mild steel" :> 1) @@ ("aluminium" :> 2) @@ FullRates
Without(r, key) == [k \in DOMAIN r \ {key} |-> r[k]]
PerInspectionRates ==
    ("inspection_rate_per_inspection" :> 2) @@ Without(FullRates, "inspection_rate_per_unit")
DefaultRates ==
    ("steel_rate" :> 5) @@ ("aluminum_rate" :> 7) @@ ("labour_rate" :> 20)
    @@ ("laser_cutting" :> 25) @@ ("bending" :> 15) @@ ("welding" :> 30)
    @@ ("painting" :> 10) @@ ("assembly" :> 12) @@ ("inspection" :> 8)
    @@ ("packaging" :> 5) @@ ("turret_press" :> 20)
EmptyRates == <<>>

\* The system tests' table with a dict entry for cutting: an hourly rate of
\* 6 per sub_value mm, or a simple rate of 6.
DictEntry(key, type, value, sub_value) ==
    (key :> value) @@ ((key \o ".type") :> type) @@ ((key \o ".sub_value") :> sub_value)
    @@ (IF type = "hourly" THEN (key \o ".sub_field") :> "mm" ELSE <<>>)
HourlyRates(sub_value) ==
    DictEntry("cutting_rate_per_mm", "hourly", 6, sub_value) @@ FullRates
SimpleEntryRates == DictEntry("cutting_rate_per_mm", "simple", 6, 0) @@ FullRates

\* A table read from a rates_global.txt with the line cutting_rate_per_mm:-1.0,
\* which load_rates takes as it takes any float (file_handler.py line 92).
NegativeCuttingRates == ("cutting_rate_per_mm" :> (0 - 1)) @@ DisplayNameRates

\* The table after the administrator set every rate to 0, which update_rate
\* accepts (gui.py lines 1189-1239 reject only a negative value).
ZeroRates == [key \in DOMAIN DisplayNameRates |-> 0]

\* Operation rows.
Cut == <<"Cutting", 10, "None">>

SinglePart(part_id, revision, material, d, quantity, work_centres, sub_parts, fasteners) ==
    [part_type |-> "Single Part", part_id |-> part_id, revision |-> revision,
     specs |-> [material |-> material, thickness |-> d[1], length |-> d[2], width |-> d[3],
                quantity |-> quantity, sub_parts |-> sub_parts,
                fastener_types_and_counts |-> fasteners],
     work_centres |-> work_centres]

Assembly(part_id, revision, quantity, work_centres, sub_parts) ==
    [part_type |-> "Assembly", part_id |-> part_id, revision |-> revision,
     specs |-> [material |-> "N/A", thickness |-> 0, length |-> 0, width |-> 0,
                quantity |-> quantity, sub_parts |-> sub_parts,
                fastener_types_and_counts |-> <<>>],
     work_centres |-> work_centres]

Widgets(tab, part_id, revision, material, d, quantity, work_centres, sub_parts, ftype, fcount) ==
    [tab |-> tab, part_id |-> part_id, revision |-> revision, material |-> material,
     thickness |-> d[1], length |-> d[2], width |-> d[3], quantity |-> quantity,
     fastener_type |-> ftype, fastener_count |-> fcount, sub_parts |-> sub_parts,
     work_centres |-> work_centres]

PartData(part_type, material, d, quantity, work_centres, fasteners, cat_cost, sub_parts) ==
    [part_type |-> part_type, material |-> material,
     thickness |-> d[1], length |-> d[2], width |-> d[3], quantity |-> quantity,
     catalogue_cost |-> cat_cost, work_centres |-> work_centres,
     fastener_types_and_counts |-> fasteners, sub_parts |-> sub_parts]

(***************************************************************************)
(* The system: the handlers as actions                                     *)
(***************************************************************************)

NoCall == [op |-> "none"]

\* calculate_cost(part_data, rates), called on its own
CalculateCost(part_data) ==
    LET c == CostOutcome(part_data, rates)
    IN  /\ call' = [op |-> "calculate_cost", args |-> part_data, part_data |-> <<part_data>>,
                    raised |-> None, ret |-> c.ret, calc |-> TRUE,
                    failed |-> c.failed, missing |-> c.missing,
                    saved |-> FALSE, wrote |-> FALSE]
        /\ UNCHANGED <<testing_mode, role, screen, rates, registry, added_parts, submit_state, last_part_id,
                       last_total_cost>>

\* logic.calculate_and_save(part_specs, file_handler, rates, added_parts, show_message)
\* (The same, were the part put on the list before the checks were made.)
LogicAppendFirst(part_specs) ==
    LET o == LogicOutcome(part_specs, registry, rates)
        specs == part_specs.specs
        saved == save_output(registry, part_specs.part_id, part_specs.revision,
                             specs.material, specs.thickness, specs.length, specs.width,
                             specs.quantity, o.ret)
    IN  /\ Len(added_parts) < MaxAdded
        /\ o.raised = None => Len(saved) <= MaxRegistry
        /\ registry' = IF o.raised = None THEN saved ELSE registry
        /\ added_parts' = Append(added_parts,
                                 [part_id |-> part_specs.part_id, quantity |-> specs.quantity])
        /\ call' = [op |-> "logic.calculate_and_save", args |-> part_specs,
                    part_data |-> IF o.calc THEN <<part_specs_full(part_specs)>> ELSE <<>>,
                    raised |-> o.raised, ret |-> o.ret, calc |-> o.calc,
                    failed |-> o.failed, missing |-> o.missing,
                    saved |-> o.raised = None,
                    wrote |-> o.raised = None /\ saved # registry]
        /\ UNCHANGED <<testing_mode, role, screen, rates, submit_state, last_part_id, last_total_cost>>

LogicCalculateAndSave(part_specs) ==
    LET o == LogicOutcome(part_specs, registry, rates)
        specs == part_specs.specs
        saved == save_output(registry, part_specs.part_id, part_specs.revision,
                             specs.material, specs.thickness, specs.length, specs.width,
                             specs.quantity, o.ret)
    IN  /\ o.raised = None => Len(saved) <= MaxRegistry /\ Len(added_parts) < MaxAdded
        /\ registry' = IF o.raised = None THEN saved ELSE registry
        /\ added_parts' =
               IF o.raised = None
               THEN Append(added_parts,
                           [part_id |-> part_specs.part_id, quantity |-> specs.quantity])
               ELSE added_parts
        /\ call' = [op |-> "logic.calculate_and_save", args |-> part_specs,
                    part_data |-> IF o.calc THEN <<part_specs_full(part_specs)>> ELSE <<>>,
                    raised |-> o.raised, ret |-> o.ret, calc |-> o.calc,
                    failed |-> o.failed, missing |-> o.missing,
                    saved |-> o.raised = None,
                    wrote |-> o.raised = None /\ saved # registry]
        /\ UNCHANGED <<testing_mode, role, screen, rates, submit_state, last_part_id, last_total_cost>>

\* SheetMetalClientHub.calculate_and_save, with the widgets holding w
GuiCalculateAndSave(w) ==
    LET o == GuiOutcome(w, registry, rates)
        p == gui_part_specs(w)
        saved == save_output(registry, w.part_id, w.revision, p.material, p.thickness,
                             p.length, p.width, p.quantity, o.ret)
    IN  /\ screen = "part_input"
        /\ o.raised = None => Len(saved) <= MaxRegistry
        /\ registry' = IF o.raised = None THEN saved ELSE registry
        /\ submit_state' = IF o.raised = None THEN "normal" ELSE submit_state
        /\ last_part_id' = IF o.raised = None THEN w.part_id ELSE last_part_id
        /\ last_total_cost' = IF o.raised = None THEN <<o.ret>> ELSE last_total_cost
        /\ call' = [op |-> "gui.calculate_and_save", args |-> w,
                    part_data |-> IF o.calc THEN <<p>> ELSE <<>>,
                    raised |-> o.raised, ret |-> o.ret, calc |-> o.calc,
                    failed |-> o.failed, missing |-> o.missing,
                    saved |-> o.raised = None,
                    wrote |-> o.raised = None /\ saved # registry]
        /\ UNCHANGED <<testing_mode, role, screen, rates, added_parts>>

\* logic.generate_quote(customer_name, profit_margin, added_parts, file_handler, show_message)
GenerateQuote(customer_name, profit_margin) ==
    LET o == QuoteOutcome(customer_name, profit_margin, added_parts, registry)
    IN  /\ call' = [op |-> "logic.generate_quote",
                    args |-> [customer_name |-> customer_name, profit_margin |-> profit_margin],
                    part_data |-> <<>>,
                    raised |-> o.raised, ret |-> o.ret, calc |-> FALSE,
                    failed |-> FALSE, missing |-> None,
                    saved |-> o.raised = None, wrote |-> FALSE]
        /\ UNCHANGED <<testing_mode, role, screen, rates, registry, added_parts, submit_state, last_part_id,
                       last_total_cost>>

\* The command of the Submit button of the part input screen (line 718):
\* create_quote_screen(self.last_part_id, self.last_total_cost).  A disabled
\* button runs no command.
Submit ==
    /\ screen = "part_input"
    /\ submit_state = "normal"
    /\ screen' = "quote"
    /\ call' = [op |-> "gui.create_quote_screen",
                args |-> [part_id |-> last_part_id, total_cost |-> last_total_cost],
                part_data |-> <<>>, raised |-> None, ret |-> 0, calc |-> FALSE,
                failed |-> FALSE, missing |-> None, saved |-> FALSE, wrote |-> FALSE]
    /\ UNCHANGED <<testing_mode, role, rates, registry, added_parts, submit_state, last_part_id,
                   last_total_cost>>

\* SheetMetalClientHub.generate_quote(part_id, total_cost), the command of
\* the quote screen's button, with the id and the cost the screen was opened
\* with; on success create_part_input_screen builds the part screen anew,
\* Submit disabled.
GuiGenerateQuote(customer_name, profit_margin) ==
    /\ screen = "quote"
    /\ LET o == GuiQuoteOutcome(customer_name, profit_margin, Value(last_total_cost))
       IN  /\ submit_state' = IF o.raised = None THEN "disabled" ELSE submit_state
           /\ screen' = IF o.raised = None THEN "part_input" ELSE screen
           /\ call' = [op |-> "gui.generate_quote",
                       args |-> [customer_name |-> customer_name,
                                 profit_margin |-> profit_margin],
                       part_data |-> <<>>,
                       raised |-> o.raised, ret |-> o.ret, calc |-> FALSE,
                       failed |-> FALSE, missing |-> None,
                       saved |-> o.raised = None, wrote |-> FALSE]
    /\ UNCHANGED <<testing_mode, role, rates, registry, added_parts, last_part_id, last_total_cost>>

(***************************************************************************)
(* Spec: the pricing pipeline from an empty registry.  Parts are priced    *)
(* and registered through logic.py and the GUI, and quoted.                *)
(***************************************************************************)

LogicInputs ==
    {SinglePart("PART-AAAAA", "A", "Mild Steel", <<1, 50, 50>>, q, <<Cut>>, <<>>, <<>>) :
        q \in {1, 2}}
    \cup {SinglePart("PART-BBBBB", "A", "Aluminium", <<1, 50, 50>>, 1, <<Cut>>, <<>>, <<>>),
          SinglePart("PART-BBBBB", "A", "Copper", <<1, 50, 50>>, 1, <<Cut>>, <<>>, <<>>),
          SinglePart("PART-BBBBB", "A", "Aluminium", <<1, 50, 50>>, 1,
                     <<<<"Milling", 1, "None">>>>, <<>>, <<>>),
          Assembly("ASSY-CCCCC", "A", 1, <<<<"Assembly", 2, "None">>>>, <<<<"PART-AAAAA", 1>>>>)}

GuiInputs ==
    {Widgets(1, "PART-BBBBB", "A", "Aluminium", <<1, 50, 50>>, <<1>>, <<Cut>>, <<>>,
             "None", <<0>>)}
    \cup {Widgets(0, "ASSY-CCCCC", "A", "N/A", <<0, 0, 0>>, <<q>>,
                  <<<<"Assembly", 2, "None">>>>, s, "None", <<0>>) :
        q \in {1, 2}, s \in {<<>>, <<"PART-AAAAA">>, <<"ASSY-CCCCC">>}}

CustomerNames == {"", "Acme"}
ProfitMargins == {<<>>, <<-5>>, <<0>>, <<20>>}

Init ==
    /\ rates \in {FullRates, DisplayNameRates}
    /\ registry = <<>>
    /\ added_parts = <<>>
    /\ submit_state = "disabled"
    /\ last_part_id = None
    /\ last_total_cost = <<>>
    /\ testing_mode = FALSE
    /\ role = "User"
    /\ screen = "part_input"
    /\ call = NoCall

Next ==
    \/ \E part_specs \in LogicInputs : LogicCalculateAndSave(part_specs)
    \/ \E w \in GuiInputs : GuiCalculateAndSave(w)
    \/ \E customer_name \in CustomerNames, profit_margin \in ProfitMargins :
           GenerateQuote(customer_name, profit_margin)
    \/ Submit
    \/ \E customer_name \in CustomerNames, profit_margin \in ProfitMargins :
           GuiGenerateQuote(customer_name, profit_margin)

Spec == Init /\ [][Next]_vars


(***************************************************************************)
(* SpecCall: one call of calculate_cost or of a calculate_and_save, under  *)
(* any of the rate tables and with or without registered parts.            *)
(***************************************************************************)

\* The system tests' table without one of its keys.
RateTables ==
    {FullRates, DisplayNameRates, PerInspectionRates, DefaultRates, EmptyRates,
     HourlyRates(5), HourlyRates(0), SimpleEntryRates, NegativeCuttingRates,
     ZeroRates}
    \cup {Without(FullRates, key) : key \in DOMAIN FullRates}

\* output.txt after PART-AAAAA was priced through logic.py and ASSY-CCCCC
\* through the GUI, under FullRates.
RegisteredParts ==
    save_output(save_output(<<>>, "PART-AAAAA", "A", "Mild Steel", 1, 50, 50, 1, 2510),
                "ASSY-CCCCC", "A", "N/A", 0, 0, 0, 1, 16)

\* The names the if/elif chain knows, and one it does not.
WorkCentreNames ==
    {"Cutting", "Bending", "Welding", "Assembly", "Finishing", "Drilling", "Punching",
     "Grinding", "Coating", "Inspection"}
SubOptions == {"None", "", "MIG", "TIG", "Painting", "Coating"}
Milling == <<"Milling", 4, "None">>

WorkCentreLists ==
    {<<>>, <<Cut>>, <<Cut, Milling>>, <<Milling, Cut>>,
     <<<<"Welding", 10, "MIG">>>>, <<<<"Welding", 10, "None">>>>, <<<<"Welding", 10, "">>>>,
     <<Cut, <<"Coating", 5, "None">>>>, <<Cut, <<"Coating", 5, "Painting">>>>,
     <<Cut, <<"Inspection", 1, "None">>>>}

Dimensions ==
    {<<1, 50, 50>>, <<3, 3000, 50>>, <<4, 50, 50>>, <<1, 49, 50>>, <<1, 50, 1501>>,
     <<0, 50, 50>>, <<1, 3001, 50>>, <<1, 50, 49>>, <<4, 49, 1501>>}

CostInputs ==
    {PartData("Assembly", "N/A", <<0, 0, 0>>, q, <<<<name, 3, sub_option>>>>, <<>>, 0, <<>>) :
        name \in WorkCentreNames \cup {"Milling"}, sub_option \in SubOptions, q \in {1, 2}}
    \cup {PartData("Single Part", m, <<2, 100, 50>>, 2, wc, f, 0, <<>>) :
        m \in {"steel", "Mild Steel", "mild steel", "mild_steel_rate", "copper", "N/A"},
        wc \in {<<>>, <<Cut>>, <<Cut, Milling>>, <<Milling, Cut>>},
        f \in {<<>>, <<<<"Bolts", 4>>>>, <<<<"Nails", 4>>>>}}
    \cup {PartData("Single Part", m, <<thickness, 100, 50>>, 2, wc, <<>>, 0, <<>>) :
        m \in {"steel", "mild steel"}, thickness \in {0, 4}, wc \in {<<>>, <<Cut>>}}
    \cup {PartData("Assembly", "N/A", <<0, 0, 0>>, 1, <<<<"Assembly", 2, "None">>>>, <<>>, 0,
                   <<<<"PART-AAAAA", 1>>>>)}

LogicCallInputs ==
    {SinglePart(id, "A", m, d, q, <<Cut>>, <<>>, <<>>) :
        id \in {"PART-AAAAA", "", "ASSY-CCCCC"},
        m \in {"Mild Steel", "Aluminium", "Copper"}, d \in Dimensions, q \in {0, 1, 2}}
    \cup {SinglePart("PART-AAAAA", "A", "Mild Steel", <<1, 50, 50>>, 1, wc, s, f) :
        wc \in WorkCentreLists, s \in {<<>>, <<<<"FAS-001", "M6 bolt", 2>>>>},
        f \in {<<>>, <<<<"Bolts", 4>>>>, <<<<"Nails", 4>>>>}}
    \cup {SinglePart("PART-AAAAA", "A", "Mild Steel", <<1, 50, 50>>, 1, <<Cut>>, s, f) :
        s \in {<<>>, <<<<"FAS-001", "M6 bolt", 101>>>>, <<<<"FAS-001", "M6 bolt", 0 - 1>>>>},
        f \in {<<>>, <<<<"Bolts", 101>>>>, <<<<"Bolts", 0 - 1>>>>}}
    \cup {Assembly(id, rev, q, wc, s) :
        id \in {"ASSY-CCCCC", ""}, rev \in {"A", ""}, q \in {0, 1},
        wc \in {<<>>, <<<<"Assembly", 2, "None">>>>},
        s \in {<<>>, <<<<"PART-AAAAA", 1>>>>, <<<<"PART-AAAAA", "part", 1>>>>,
               <<<<"PART-BBBBB", 1>>>>, <<<<"PART-AAAAA", 1>>, <<"PART-BBBBB", 1>>>>,
               <<<<"PART-BBBBB", 1>>, <<"PART-AAAAA", 1>>>>}}

GuiCallInputs ==
    {Widgets(1, id, "A", m, d, q, <<Cut>>, <<>>, "None", <<0>>) :
        id \in {"PART-AAAAA", "", "ASSY-CCCCC"},
        m \in {"Mild Steel", "Aluminium", "Copper"}, d \in Dimensions,
        q \in {<<>>, <<0>>, <<1>>, <<2>>}}
    \cup {Widgets(1, "PART-AAAAA", "A", "Mild Steel", <<1, 50, 50>>, <<1>>, wc, s, f[1], f[2]) :
        wc \in WorkCentreLists \cup {<<<<"", 0, "None">>, Cut>>, <<<<"Cutting", 0, "None">>>>},
        s \in {<<>>, <<"FAS-001: M6 bolt">>},
        f \in {<<"None", <<0>>>>, <<"Bolts", <<4>>>>, <<"Bolts", <<>>>>, <<"Bolts", <<101>>>>}}
    \cup {Widgets(1, "PART-AAAAA", "A", "Mild Steel", <<1, 50, 50>>, <<1>>, <<Cut>>, <<>>,
                   "Bolts", <<0 - 1>>)}
    \cup {Widgets(0, id, "A", "N/A", <<0, 0, 0>>, q, wc, s, "None", <<0>>) :
        id \in {"ASSY-CCCCC", "", "PART-AAAAA"}, q \in {<<>>, <<0>>, <<1>>, <<2>>},
        wc \in {<<>>, <<<<"Assembly", 2, "None">>>>, <<<<"Welding", 10, "None">>>>},
        s \in {<<>>, <<"PART-AAAAA">>, <<"ASSY-CCCCC">>, <<"PART-BBBBB">>,
               <<"PART-AAAAA", "PART-BBBBB">>}}

InitCall ==
    /\ rates \in RateTables
    /\ registry \in {<<>>, RegisteredParts}
    /\ added_parts = <<>>
    /\ submit_state = "disabled"
    /\ last_part_id = None
    /\ last_total_cost = <<>>
    /\ testing_mode = FALSE
    /\ role = "User"
    /\ screen = "part_input"
    /\ call = NoCall

NextCall ==
    \/ \E part_data \in CostInputs : call = NoCall /\ CalculateCost(part_data)
    \/ \E part_specs \in LogicCallInputs : call = NoCall /\ LogicCalculateAndSave(part_specs)
    \/ \E w \in GuiCallInputs : call = NoCall /\ GuiCalculateAndSave(w)

SpecCall == InitCall /\ [][NextCall]_vars

(***************************************************************************)
(* SpecShared: one call of logic.py's generate_quote or calculate_and_save *)
(* taken file access by file access, while another process that shares     *)
(* data/output.txt rewrites it.  The call in flight is in `call`: pc tells  *)
(* where it stands, i and total_cost are the loop's variables, and read     *)
(* lists the contents of output.txt at each of the call's accesses.        *)
(***************************************************************************)

Idle == [op |-> "none", pc |-> "idle"]

InFlight(op, pc, args, ret) ==
    [op |-> op, pc |-> pc, args |-> args, raised |-> None, ret |-> ret, saved |-> FALSE,
     i |-> 1, total_cost |-> 0, read |-> <<>>]

\* PART-AAAAA and PART-BBBBB, priced through logic.py under DisplayNameRates.
SharedRegistry ==
    save_output(save_output(<<>>, "PART-AAAAA", "A", "Mild Steel", 1, 50, 50, 1, 2510),
                "PART-BBBBB", "A", "Aluminium", 1, 50, 50, 1, 5010)

\* What the other process may leave in output.txt: nothing, the same parts,
\* or the same parts priced anew.
OtherContents ==
    {<<>>, SharedRegistry,
     save_output(save_output(<<>>, "PART-AAAAA", "A", "Mild Steel", 1, 50, 50, 1, 3000),
                 "PART-BBBBB", "A", "Aluminium", 1, 50, 50, 1, 6000)}

SharedQuoteLists ==
    {<<[part_id |-> "PART-AAAAA", quantity |-> 1]>>,
     <<[part_id |-> "PART-AAAAA", quantity |-> 2], [part_id |-> "PART-BBBBB", quantity |-> 1]>>,
     <<[part_id |-> "PART-BBBBB", quantity |-> 1], [part_id |-> "PART-CCCCC", quantity |-> 1]>>}

SharedSaveInputs ==
    {Assembly("ASSY-CCCCC", "A", 1, <<<<"Assembly", 2, "None">>>>, s) :
        s \in {<<<<"PART-AAAAA", 1>>>>, <<<<"PART-DDDDD", 1>>>>}}
    \cup {SinglePart("PART-BBBBB", "A", "Aluminium", <<1, 50, 50>>, 1, <<Cut>>, <<>>, <<>>)}

\* generate_quote, lines 116-134: the checks, before the loop opens any file.
BeginQuote(customer_name, profit_margin) ==
    /\ call = Idle
    /\ LET msg == quote_validation(customer_name, profit_margin, added_parts)
           c == InFlight("logic.generate_quote", "loop",
                         [customer_name |-> customer_name, profit_margin |-> profit_margin], 0)
       IN  call' = IF msg # None THEN [c EXCEPT !.pc = "done", !.raised = msg] ELSE c
    /\ UNCHANGED <<testing_mode, role, screen, rates, registry, added_parts, submit_state, last_part_id, last_total_cost>>

\* One pass of the loop of lines 135-145: load_part_cost opens output.txt.
ReadPartCost ==
    /\ call.op = "logic.generate_quote"
    /\ call.pc = "loop"
    /\ call.i <= Len(added_parts)
    /\ LET part == added_parts[call.i]
       IN  call' = IF ~HasCost(part.part_id, registry)
                   THEN [call EXCEPT !.pc = "done",
                                     !.raised = "Cost not found for part " \o part.part_id,
                                     !.read = Append(@, registry)]
                   ELSE [call EXCEPT !.i = @ + 1,
                                     !.total_cost = @ + part_total(part, registry),
                                     !.read = Append(@, registry)]
    /\ UNCHANGED <<testing_mode, role, screen, rates, registry, added_parts, submit_state, last_part_id, last_total_cost>>

\* Lines 147-152, after the loop: save_quote and the return.
FinishQuote ==
    /\ call.op = "logic.generate_quote"
    /\ call.pc = "loop"
    /\ call.i > Len(added_parts)
    /\ call' = [call EXCEPT !.pc = "done", !.saved = TRUE,
                            !.ret = final_cost(call.total_cost, Value(call.args.profit_margin))]
    /\ UNCHANGED <<testing_mode, role, screen, rates, registry, added_parts, submit_state, last_part_id, last_total_cost>>

\* calculate_and_save, lines 22-98: the checks, of which the one of lines
\* 44-49 reads output.txt for an assembly, and the cost.
BeginSave(part_specs) ==
    /\ call = Idle
    /\ LET o == LogicOutcome(part_specs, registry, rates)
           c == InFlight("logic.calculate_and_save", "save", part_specs, o.ret)
           seen == IF part_specs.part_type = "Assembly" THEN <<registry>> ELSE <<>>
       IN  call' = IF o.raised # None
                   THEN [c EXCEPT !.pc = "done", !.raised = o.raised, !.read = seen]
                   ELSE [c EXCEPT !.read = seen]
    /\ UNCHANGED <<testing_mode, role, screen, rates, registry, added_parts, submit_state, last_part_id, last_total_cost>>

\* Lines 100-109: save_output reads output.txt for a duplicate and appends
\* the line; the part goes on the list.
WriteOutput ==
    /\ call.op = "logic.calculate_and_save"
    /\ call.pc = "save"
    /\ LET part_specs == call.args
           specs == part_specs.specs
       IN  /\ registry' = save_output(registry, part_specs.part_id, part_specs.revision,
                                      specs.material, specs.thickness, specs.length,
                                      specs.width, specs.quantity, call.ret)
           /\ added_parts' = Append(added_parts, [part_id |-> part_specs.part_id,
                                                  quantity |-> specs.quantity])
    /\ call' = [call EXCEPT !.pc = "done", !.saved = TRUE, !.read = Append(@, registry)]
    /\ UNCHANGED <<testing_mode, role, screen, rates, submit_state, last_part_id, last_total_cost>>

\* The other process rewrites output.txt while the call is in flight.
OtherWriter(contents) ==
    /\ call.pc \in {"loop", "save"}
    /\ contents # registry
    /\ registry' = contents
    /\ UNCHANGED <<testing_mode, role, screen, rates, added_parts, submit_state, last_part_id, last_total_cost, call>>

InitShared ==
    /\ rates = FullRates
    /\ registry = SharedRegistry
    /\ added_parts \in SharedQuoteLists
    /\ submit_state = "disabled"
    /\ last_part_id = None
    /\ last_total_cost = <<>>
    /\ testing_mode = FALSE
    /\ role = "User"
    /\ screen = "part_input"
    /\ call = Idle

NextShared ==
    \/ \E customer_name \in CustomerNames, profit_margin \in ProfitMargins :
           BeginQuote(customer_name, profit_margin)
    \/ ReadPartCost
    \/ FinishQuote
    \/ \E part_specs \in SharedSaveInputs : BeginSave(part_specs)
    \/ WriteOutput
    \/ \E contents \in OtherContents : OtherWriter(contents)

SpecShared == InitShared /\ [][NextShared]_vars

(***************************************************************************)
(* SpecRates: the admin screen's update_rate and logic.py's update_rate on *)
(* the rate store, data/rates_global.txt.                                  *)
(***************************************************************************)

\* file_handler.update_rates(key, rate_value): the table the file holds
\* after the call.  A float takes the place of the whole entry.
update_rates(r, key, rate_value) ==
    IF key = "" THEN r
    ELSE IF rate_value < 0 THEN r
    ELSE LET fields == {key \o ".type", key \o ".sub_value",
                        key \o ".sub_field"}
             rest == [k \in DOMAIN r \ fields |-> r[k]]
         IN  (key :> rate_value) @@ rest

\* The outcome of an update_rate: the error (raised), whether update_rates
\* ran (updated), and the table after.
Rejected(msg, r) == [raised |-> msg, updated |-> FALSE, rates |-> r]

\* gui.py, update_rate (lines 1189-1239), with the entries holding the key
\* and the value.
GuiUpdateOutcome(key, rate_value, r) ==
    IF key = "" THEN Rejected("Rate key cannot be empty", r)
    ELSE IF ~IsNumber(rate_value)
    THEN Rejected("Invalid rate value: please enter a numeric value", r)
    ELSE IF Value(rate_value) < 0 THEN Rejected("Rate value cannot be negative", r)
    ELSE [raised |-> None, updated |-> TRUE,
          rates |-> update_rates(r, key, Value(rate_value))]

\* logic.py, update_rate (lines 154-190), with file_handler.py as its
\* file_handler: rates[key] is a KeyError for a key the table lacks,
\* .get an AttributeError on a float entry, and update_rates, which takes two
\* arguments, a TypeError when called with three.
LogicUpdateOutcome(key, rate_value, sub_value, r) ==
    IF key = "Select Rate Key" THEN Rejected("Please select a rate key", r)
    ELSE IF ~IsNumber(rate_value) THEN Rejected("Rate value must be a valid number", r)
    ELSE IF Value(rate_value) < 0 THEN Rejected("Rate value cannot be negative", r)
    ELSE IF key \notin DOMAIN r THEN Rejected("KeyError", r)
    ELSE IF ~is_dict(r, key) THEN Rejected("AttributeError", r)
    ELSE IF /\ r[key \o ".type"] = "hourly"
            /\ (key \o ".sub_field") \in DOMAIN r
            /\ ~IsNumber(sub_value)
    THEN Rejected(r[key \o ".sub_field"] \o " must be a valid number", r)
    ELSE IF /\ r[key \o ".type"] = "hourly"
            /\ (key \o ".sub_field") \in DOMAIN r
            /\ Value(sub_value) <= 0
    THEN Rejected(r[key \o ".sub_field"] \o " must be positive", r)
    ELSE Rejected("TypeError", r)

UpdateCall(op, key, rate_value, sub_value, o) ==
    [op |-> op,
     args |-> [rate_key |-> key, rate_value |-> rate_value, sub_value |-> sub_value],
     raised |-> o.raised, updated |-> o.updated]

\* SheetMetalClientHub.update_rate, the command of the Update Rate button
GuiUpdateRate(key, rate_value) ==
    LET o == GuiUpdateOutcome(key, rate_value, rates)
    IN  /\ screen = "admin"
        /\ rates' = o.rates
        /\ call' = UpdateCall("gui.update_rate", key, rate_value, <<>>, o)
        /\ UNCHANGED <<testing_mode, role, screen, registry, added_parts, submit_state, last_part_id, last_total_cost>>

\* logic.update_rate(key, rate_value, sub_value, file_handler, show_message)
LogicUpdateRate(key, rate_value, sub_value) ==
    LET o == LogicUpdateOutcome(key, rate_value, sub_value, rates)
    IN  /\ rates' = o.rates
        /\ call' = UpdateCall("logic.update_rate", key, rate_value, sub_value, o)
        /\ UNCHANGED <<testing_mode, role, screen, registry, added_parts, submit_state, last_part_id, last_total_cost>>

\* What the entries and the callers hold: no key, two keys of the default
\* table, the drop-down's placeholder; no number, and numbers of each sign.
GuiRateKeys == {"", "steel_rate", "cutting_rate_per_mm"}
LogicRateKeys == {"Select Rate Key", "", "steel_rate", "cutting_rate_per_mm"}
RateValues == {<<>>, <<0 - 1>>, <<0>>, <<3>>}
SubValues == {<<>>, <<0>>, <<2>>}

InitRates ==
    /\ rates \in {DefaultRates, HourlyRates(5)}
    /\ registry = <<>>
    /\ added_parts = <<>>
    /\ submit_state = "disabled"
    /\ last_part_id = None
    /\ last_total_cost = <<>>
    /\ testing_mode = FALSE
    /\ role = "Admin"
    /\ screen = "admin"
    /\ call = NoCall

NextRates ==
    \/ \E key \in GuiRateKeys, rate_value \in RateValues :
           GuiUpdateRate(key, rate_value)
    \/ \E key \in LogicRateKeys, rate_value \in RateValues, sub_value \in SubValues :
           LogicUpdateRate(key, rate_value, sub_value)

SpecRates == InitRates /\ [][NextRates]_vars

(***************************************************************************)
(* SpecGui: the screens of the GUI from its start at the login screen:     *)
(* login, the part input screen with its buttons, the admin prompt of      *)
(* Settings, the admin screen and the quote screen.                        *)
(***************************************************************************)

\* data/users.txt as validate_credentials writes it when it is missing; each
\* line as line.strip().split(':') reads it.
users_txt == << <<"laurie", "moffat123">>, <<"admin", "admin123">> >>

\* file_handler.validate_credentials(username, password)
validate_credentials(username, password) ==
    \E i \in 1..Len(users_txt) :
        /\ Len(users_txt[i]) = 2
        /\ users_txt[i][1] = username
        /\ users_txt[i][2] = password

\* The record of a GUI command with no cost to report.
GuiCall(op, args, raised) ==
    [op |-> op, args |-> args, part_data |-> <<>>, raised |-> raised, ret |-> 0,
     calc |-> FALSE, failed |-> FALSE, missing |-> None, saved |-> FALSE, wrote |-> FALSE]

\* (The role login gives, were every user made an admin.)
LoginRoleAlwaysAdmin(username) == "Admin"

\* Line 212: the role of a user whose credentials were accepted.
login_role(username) == IF username = "admin" THEN "Admin" ELSE "User"

\* SheetMetalClientHub.login, the command of the Login button and of the
\* Return key, which create_login_screen binds on the root window; off the
\* login screen its entries are destroyed and username_entry.get() raises.
Login(username, password) ==
    LET c(raised) == GuiCall("gui.login", [username |-> username, password |-> password],
                             raised)
    IN  IF screen # "login"
        THEN /\ call' = c("TclError")
             /\ UNCHANGED <<testing_mode, rates, registry, added_parts, submit_state,
                            last_part_id, last_total_cost, role, screen>>
        ELSE IF username = "" \/ password = ""
        THEN /\ call' = c("Username and password cannot be empty")
             /\ UNCHANGED <<testing_mode, rates, registry, added_parts, submit_state,
                            last_part_id, last_total_cost, role, screen>>
        ELSE IF validate_credentials(username, password)
        THEN /\ role' = login_role(username)
             /\ screen' = IF role' = "User" THEN "part_input" ELSE "admin"
             /\ submit_state' = "disabled"
             /\ call' = c(None)
             /\ UNCHANGED <<testing_mode, rates, registry, added_parts, last_part_id,
                            last_total_cost>>
        ELSE /\ call' = c("Invalid username or password")
             /\ UNCHANGED <<testing_mode, rates, registry, added_parts, submit_state,
                            last_part_id, last_total_cost, role, screen>>

\* prompt_admin_credentials: True in testing mode; else what the dialog
\* ends with, a Submit of accepted credentials of 'admin' or a Cancel.
Cancel == <<>>
prompt_admin_credentials(dialog) ==
    \/ testing_mode
    \/ /\ dialog # Cancel
       /\ dialog[1] # ""
       /\ dialog[2] # ""
       /\ validate_credentials(dialog[1], dialog[2])
       /\ dialog[1] = "admin"

\* SheetMetalClientHub.go_to_settings, the command of the Settings button
GoToSettings(dialog) ==
    /\ screen = "part_input"
    /\ IF role = "Admin"
       THEN /\ screen' = "admin"
            /\ call' = GuiCall("gui.go_to_settings", <<>>, None)
            /\ UNCHANGED role
       ELSE IF prompt_admin_credentials(dialog)
       THEN /\ role' = "Admin"
            /\ screen' = "admin"
            /\ call' = GuiCall("gui.go_to_settings", IF testing_mode THEN <<>> ELSE dialog,
                               None)
       ELSE /\ call' = GuiCall("gui.go_to_settings", dialog, "Admin access denied")
            /\ UNCHANGED <<role, screen>>
    /\ UNCHANGED <<testing_mode, rates, registry, added_parts, submit_state, last_part_id,
                   last_total_cost>>

\* SheetMetalClientHub.go_back_to_login, the command of the Back button
GoBackToLogin ==
    /\ screen = "part_input"
    /\ role' = None
    /\ screen' = "login"
    /\ call' = GuiCall("gui.go_back_to_login", <<>>, None)
    /\ UNCHANGED <<testing_mode, rates, registry, added_parts, submit_state, last_part_id,
                   last_total_cost>>

\* The User Features button of the admin screen: create_part_input_screen.
UserFeatures ==
    /\ screen = "admin"
    /\ screen' = "part_input"
    /\ submit_state' = "disabled"
    /\ call' = GuiCall("gui.create_part_input_screen", <<>>, None)
    /\ UNCHANGED <<testing_mode, rates, registry, added_parts, last_part_id,
                   last_total_cost, role>>

\* SheetMetalClientHub.reset_part_input, the command of Add Another Part,
\* a button enabled and disabled together with Submit.
ResetPartInput ==
    /\ screen = "part_input"
    /\ submit_state = "normal"
    /\ submit_state' = "disabled"
    /\ call' = GuiCall("gui.reset_part_input", <<>>, None)
    /\ UNCHANGED <<testing_mode, rates, registry, added_parts, last_part_id,
                   last_total_cost, role, screen>>

\* The part input screen's entries: those of GuiInputs, and the single part
\* entered again with another quantity.
GuiScreenInputs ==
    GuiInputs
    \cup {Widgets(1, "PART-BBBBB", "A", "Aluminium", <<1, 50, 50>>, <<2>>, <<Cut>>, <<>>,
                   "None", <<0>>)}

Usernames == {"", "laurie", "admin", "mallory"}
Passwords == {"", "moffat123", "admin123"}
Dialogs == {Cancel} \cup {<<u, pw>> : u \in Usernames, pw \in Passwords}

InitGui ==
    /\ rates = DisplayNameRates
    /\ registry = <<>>
    /\ added_parts = <<>>
    /\ submit_state = "disabled"
    /\ last_part_id = None
    /\ last_total_cost = <<>>
    /\ testing_mode \in BOOLEAN
    /\ role = None
    /\ screen = "login"
    /\ call = NoCall

NextGui ==
    \/ \E username \in Usernames, password \in Passwords : Login(username, password)
    \/ \E dialog \in Dialogs : GoToSettings(dialog)
    \/ GoBackToLogin
    \/ UserFeatures
    \/ ResetPartInput
    \/ \E w \in GuiScreenInputs : GuiCalculateAndSave(w)
    \/ Submit
    \/ \E customer_name \in CustomerNames, profit_margin \in ProfitMargins :
           GuiGenerateQuote(customer_name, profit_margin)

SpecGui == InitGui /\ [][NextGui]_vars

(***************************************************************************)
(* SpecSave: two calls of file_handler.save_output made at the same time   *)
(* by two instances of the program that share data/output.txt, each taken  *)
(* file access by file access.  The calls in flight are in `call`:         *)
(* procs[p] holds the arguments of call p and pc tells where it stands:    *)
(* "check" before check_duplicate_part_id opens the file, "append" before  *)
(* the file is opened for appending, "done" after the return.              *)
(***************************************************************************)

Procs == {1, 2}

NotStarted == [pc |-> "idle"]

SaveIds == {"PART-AAAAA", "PART-BBBBB", "PART-CCCCC"}
SaveCosts == {2510, 3000}

\* save_output is called: nothing is read yet.
BeginSaveOutput(p, part_id, total_cost) ==
    /\ call.op = "file_handler.save_output"
    /\ call.procs[p].pc = "idle"
    /\ call' = [call EXCEPT !.procs[p] = [pc |-> "check", part_id |-> part_id,
                                          total_cost |-> total_cost, wrote |-> FALSE]]
    /\ UNCHANGED <<testing_mode, role, screen, rates, registry, added_parts, submit_state, last_part_id, last_total_cost>>

\* Lines 121-123: check_duplicate_part_id reads output.txt; a duplicate ends
\* the call.
CheckDuplicate(p) ==
    /\ call.op = "file_handler.save_output"
    /\ call.procs[p].pc = "check"
    /\ call' = [call EXCEPT !.procs[p].pc =
                    IF check_duplicate_part_id(call.procs[p].part_id, registry)
                    THEN "done" ELSE "append"]
    /\ UNCHANGED <<testing_mode, role, screen, rates, registry, added_parts, submit_state, last_part_id, last_total_cost>>

\* Lines 124-129: the line is appended to output.txt as the file is now.
AppendLine(p) ==
    /\ call.op = "file_handler.save_output"
    /\ call.procs[p].pc = "append"
    /\ registry' = Append(registry, OutputLine(call.procs[p].part_id, "A", "Mild Steel",
                                               1, 50, 50, 1, call.procs[p].total_cost))
    /\ call' = [call EXCEPT !.procs[p].pc = "done", !.procs[p].wrote = TRUE]
    /\ UNCHANGED <<testing_mode, role, screen, rates, added_parts, submit_state, last_part_id, last_total_cost>>

InitSave ==
    /\ rates = FullRates
    /\ registry \in {<<>>, save_output(<<>>, "PART-AAAAA", "A", "Mild Steel", 1, 50, 50, 1, 2510)}
    /\ added_parts = <<>>
    /\ submit_state = "disabled"
    /\ last_part_id = None
    /\ last_total_cost = <<>>
    /\ testing_mode = FALSE
    /\ role = "User"
    /\ screen = "part_input"
    /\ call = [op |-> "file_handler.save_output", procs |-> [p \in Procs |-> NotStarted]]

NextSave ==
    \/ \E p \in Procs, part_id \in SaveIds, total_cost \in SaveCosts :
           BeginSaveOutput(p, part_id, total_cost)
    \/ \E p \in Procs : CheckDuplicate(p)
    \/ \E p \in Procs : AppendLine(p)

SpecSave == InitSave /\ [][NextSave]_vars

(***************************************************************************)
(* SpecStore: two calls of file_handler.update_rates made at the same time *)
(* by two instances of the program that share data/rates_global.txt, each  *)
(* taken file access by file access.  procs[p] of `call` holds the         *)
(* arguments of call p, the dict its load_rates returned (loaded) and pc:  *)
(* "load" before load_rates opens the file, "write" before the file is     *)
(* opened for writing, "done" after the return.                            *)
(***************************************************************************)

StoreKeys == {"", "steel_rate", "labour_rate", "cutting_rate_per_mm"}
StoreValues == {0 - 1, 0, 6}

\* Lines 194-201: the checks of the key and the value.
BeginUpdateRates(p, key, rate_value) ==
    /\ call.op = "file_handler.update_rates"
    /\ call.procs[p].pc = "idle"
    /\ call' = [call EXCEPT !.procs[p] =
                    [pc |-> IF key = "" \/ rate_value < 0 THEN "done" ELSE "load",
                     rate_key |-> key, rate_value |-> rate_value,
                     loaded |-> EmptyRates, wrote |-> FALSE]]
    /\ UNCHANGED <<testing_mode, role, screen, rates, registry, added_parts, submit_state, last_part_id, last_total_cost>>

\* Line 202: load_rates (lines 60-99) returns the file's table, or {} when
\* opening or reading the file fails (readable = FALSE).
LoadRates(p, readable) ==
    /\ call.op = "file_handler.update_rates"
    /\ call.procs[p].pc = "load"
    /\ call' = [call EXCEPT !.procs[p].pc = "write",
                            !.procs[p].loaded = IF readable THEN rates ELSE EmptyRates]
    /\ UNCHANGED <<testing_mode, role, screen, rates, registry, added_parts, submit_state, last_part_id, last_total_cost>>

\* Lines 203-207: the key is set in the loaded dict and the file is
\* rewritten from it.
WriteRates(p) ==
    /\ call.op = "file_handler.update_rates"
    /\ call.procs[p].pc = "write"
    /\ rates' = update_rates(call.procs[p].loaded, call.procs[p].rate_key,
                             call.procs[p].rate_value)
    /\ call' = [call EXCEPT !.procs[p].pc = "done", !.procs[p].wrote = TRUE]
    /\ UNCHANGED <<testing_mode, role, screen, registry, added_parts, submit_state, last_part_id, last_total_cost>>

InitStore ==
    /\ rates = DefaultRates
    /\ registry = <<>>
    /\ added_parts = <<>>
    /\ submit_state = "disabled"
    /\ last_part_id = None
    /\ last_total_cost = <<>>
    /\ testing_mode = FALSE
    /\ role = "Admin"
    /\ screen = "admin"
    /\ call = [op |-> "file_handler.update_rates", procs |-> [p \in Procs |-> NotStarted]]

NextStore ==
    \/ \E p \in Procs, key \in StoreKeys, rate_value \in StoreValues :
           BeginUpdateRates(p, key, rate_value)
    \/ \E p \in Procs, readable \in BOOLEAN : LoadRates(p, readable)
    \/ \E p \in Procs : WriteRates(p)

SpecStore == InitStore /\ [][NextStore]_vars

(***************************************************************************)
(* The claims                                                              *)
(*                                                                         *)
(* Money is in the units of the rate table; a quote's final cost is in     *)
(* hundredths of it, so that the margin's percentage stays an integer.     *)
(***************************************************************************)

IsCalculateAndSave == call.op \in {"logic.calculate_and_save", "gui.calculate_and_save"}

\* The cost of the operations of an assembly at the rates of a table,
\* for one assembly: sum of rate * operation quantity.
RECURSIVE OperationsCost(_, _)
OperationsCost(work_centres, r) ==
    IF work_centres = <<>> THEN 0
    ELSE r[rate_key(Head(work_centres)[1], Head(work_centres)[3])] * Head(work_centres)[2]
             + OperationsCost(Tail(work_centres), r)

\* Sum of registered unit cost * sub-quantity over the sub-parts an assembly
\* of the GUI lists (the GUI lists each selected sub-part once).
RECURSIVE SubPartsCost(_, _)
SubPartsCost(sub_parts, reg) ==
    IF sub_parts = <<>> THEN 0
    ELSE load_part_cost(Head(sub_parts), reg) * 1 + SubPartsCost(Tail(sub_parts), reg)

\* C1 (as claimed): the cost computed for an assembly whose sub-parts are
\* registered is (sum of ci * qi + o) * assemblyQuantity, so the registered
\* sub-parts' costs are part of the result.
C1_AssemblyAdditivity ==
    (/\ call.op = "gui.calculate_and_save"
     /\ call.args.tab = 0
     /\ call.raised = None)
    => call.ret = (SubPartsCost(call.args.sub_parts, registry)
                     + OperationsCost(call.part_data[1].work_centres, rates))
                  * call.part_data[1].quantity

\* C3 (as claimed): the quantity is applied once along the pipeline: when
\* calculate_and_save returned and persisted T for a part, and generate_quote
\* is then called over that single part with margin 0, the quote is T.
C3_QuantityOnce ==
    [][(/\ call.op = "logic.calculate_and_save"
        /\ call.raised = None
        /\ call.wrote
        /\ Len(added_parts) = 1
        /\ call'.op = "logic.generate_quote"
        /\ call'.args.profit_margin = <<0>>
        /\ call'.raised = None)
       => call'.ret = 100 * call.ret]_vars

\* Sum of registered cost * quantity over the entries of parts with index in S.
RECURSIVE SumOver(_, _, _)
SumOver(S, parts, reg) ==
    IF S = {} THEN 0
    ELSE LET i == CHOOSE x \in S : TRUE
         IN  load_part_cost(parts[i].part_id, reg) * parts[i].quantity
                 + SumOver(S \ {i}, parts, reg)

\* C4: for a non-empty list of priced parts, a non-empty customer name and a
\* margin m >= 0, generate_quote returns
\* (sum of registered cost * quantity) * (1 + m / 100).
C4_QuoteTotal ==
    (/\ call.op = "logic.generate_quote"
     /\ call.args.customer_name # ""
     /\ IsNumber(call.args.profit_margin)
     /\ added_parts # <<>>
     /\ \A i \in 1..Len(added_parts) : HasCost(added_parts[i].part_id, registry))
    => (Value(call.args.profit_margin) >= 0
        => /\ call.raised = None
           /\ call.ret = SumOver(1..Len(added_parts), added_parts, registry)
                           * (100 + Value(call.args.profit_margin)))

C4_Witness ==
    /\ call.op = "logic.generate_quote"
    /\ call.raised = None
    /\ call.args.profit_margin = <<20>>
    /\ Len(added_parts) = 2
    /\ added_parts[1].quantity = 2
    /\ call.ret = 1806000

\* C10 (as claimed): no assembly that calculate_and_save accepts lists its own
\* part id among its sub-parts.
C10_NoSelfReference ==
    ~(/\ IsCalculateAndSave
      /\ call.raised = None
      /\ \/ /\ call.op = "gui.calculate_and_save"
            /\ call.args.tab = 0
            /\ \E i \in 1..Len(call.args.sub_parts) :
                   call.args.sub_parts[i] = call.args.part_id
         \/ /\ call.op = "logic.calculate_and_save"
            /\ call.args.part_type = "Assembly"
            /\ \E i \in 1..Len(call.args.specs.sub_parts) :
                   call.args.specs.sub_parts[i][1] = call.args.part_id)

(***************************************************************************)
(* Claims about one call (SpecCall)                                        *)
(***************************************************************************)

\* The operations a call submitted: the rows of the GUI that name a work centre.
Operations ==
    IF call.op = "gui.calculate_and_save"
    THEN SelectSeq(call.args.work_centres, LAMBDA row : row[1] # "")
    ELSE call.args.work_centres

OperationsKnown ==
    \A i \in 1..Len(Operations) : Operations[i][1] \in WorkCentreNames

\* The keys calculate_cost reads for a part: the material's (single parts),
\* each operation's and each fastener's.
NeededKeys(part_data) ==
    (IF part_data.part_type = "Single Part" /\ part_data.material # "N/A"
     THEN {material_rate_key(part_data.material)} ELSE {})
    \cup {rate_key(part_data.work_centres[i][1], part_data.work_centres[i][3]) :
            i \in 1..Len(part_data.work_centres)}
    \cup {fastener_rate_key(part_data.fastener_types_and_counts[i][1]) :
            i \in 1..Len(part_data.fastener_types_and_counts)}

\* calculate_cost was called with known operations and the table lacks a key it needs.
NeededKeyMissing ==
    /\ call.op # "none"
    /\ call.calc
    /\ OperationsKnown
    /\ ~(NeededKeys(call.part_data[1]) \subseteq DOMAIN rates)

\* C2 (as claimed): when the table lacks a key the computation needs, the
\* computation fails with an error that identifies the missing key, and never
\* returns a numeric 0 as its result.
C2_MissingRateError ==
    NeededKeyMissing
    => /\ ~(call.op = "calculate_cost" /\ call.ret = 0)
       /\ \E key \in NeededKeys(call.part_data[1]) \ DOMAIN rates :
              call.raised = "Missing rate for " \o key

\* C2 (amended): when the table lacks a key the computation needs,
\* calculate_cost returns 0.0 after logging the first missing key (or, when
\* an entry it reads is a dict and not a number, without logging a key), and
\* calculate_and_save, on either path, reports "Cost calculation failed,
\* check inputs or rates" and saves nothing.
C2_MissingRateZero ==
    NeededKeyMissing
    => /\ call.ret = 0
       /\ call.failed
       /\ \/ call.missing \in NeededKeys(call.part_data[1]) \ DOMAIN rates
          \/ /\ call.missing = None
             /\ \E key \in NeededKeys(call.part_data[1]) \cap DOMAIN rates :
                    is_dict(rates, key)
       /\ IsCalculateAndSave
          => /\ call.raised = "Cost calculation failed, check inputs or rates"
             /\ ~call.saved
             /\ ~call.wrote

C2_Witness ==
    /\ call.op = "logic.calculate_and_save"
    /\ call.args.specs.material = "Mild Steel"
    /\ call.calc
    /\ "mild_steel_rate" \notin DOMAIN rates
    /\ call.missing = "mild_steel_rate"
    /\ call.raised = "Cost calculation failed, check inputs or rates"

\* The spec's material key: lower case, display name to underscore form, _rate.
NormalizedMaterialKey(material) ==
    CASE material \in {"Mild Steel", "mild steel"} -> "mild_steel_rate"
      [] material = "Aluminium" -> "aluminium_rate"
      [] material = "Stainless Steel" -> "stainless_steel_rate"
      [] material = "steel" -> "steel_rate"

SupportedMaterials == {"Mild Steel", "mild steel", "Aluminium", "Stainless Steel", "steel"}

\* The material the caller supplied.
SuppliedMaterial ==
    IF call.op = "logic.calculate_and_save" THEN call.args.specs.material
    ELSE call.args.material

\* A valid single part, as logic.calculate_and_save and as the GUI receive it,
\* without fasteners or catalogue items.
ValidOperations(rows) ==
    /\ rows # <<>>
    /\ \A i \in 1..Len(rows) :
           /\ rows[i][1] \in WorkCentreNames
           /\ rows[i][2] > 0
           /\ rows[i][1] = "Welding" => rows[i][3] \in {"MIG", "TIG"}
           /\ rows[i][1] = "Coating" => rows[i][3] \in {"Painting", "Coating"}

ValidDimensions(thickness, length, width) ==
    /\ 1 <= thickness /\ thickness <= 3
    /\ 50 <= length /\ length <= 3000
    /\ 50 <= width /\ width <= 1500

ValidSinglePart ==
    \/ /\ call.op = "logic.calculate_and_save"
       /\ call.args.part_type = "Single Part"
       /\ call.args.part_id \in {"PART-AAAAA", "PART-BBBBB"}
       /\ call.args.revision # ""
       /\ call.args.specs.material \in {"Mild Steel", "Aluminium", "Stainless Steel"}
       /\ ValidDimensions(call.args.specs.thickness, call.args.specs.length,
                          call.args.specs.width)
       /\ call.args.specs.quantity >= 1
       /\ call.args.specs.sub_parts = <<>>
       /\ call.args.specs.fastener_types_and_counts = <<>>
       /\ ValidOperations(call.args.work_centres)
    \/ /\ call.op = "gui.calculate_and_save"
       /\ call.args.tab = 1
       /\ call.args.part_id \in {"PART-AAAAA", "PART-BBBBB"}
       /\ call.args.revision # ""
       /\ call.args.material \in {"Mild Steel", "Aluminium", "Stainless Steel"}
       /\ ValidDimensions(call.args.thickness, call.args.length, call.args.width)
       /\ IsNumber(call.args.quantity)
       /\ Value(call.args.quantity) >= 1
       /\ call.args.sub_parts = <<>>
       /\ call.args.fastener_type = "None"
       /\ ValidOperations(call.args.work_centres)

\* C5 (as claimed): a valid single part, priced against a table that holds the
\* material's rate and the rate of every selected operation, is priced through
\* either entry point: a cost is produced, success reported and the part saved.
C5_ValidSinglePartPriced ==
    (/\ ValidSinglePart
     /\ NormalizedMaterialKey(SuppliedMaterial) \in DOMAIN rates
     /\ \A i \in 1..Len(Operations) :
            rate_key(Operations[i][1], Operations[i][3]) \in DOMAIN rates)
    => /\ call.raised = None
       /\ call.ret > 0
       /\ call.saved

\* C6 (as claimed): whichever caller supplied a supported material M, the key
\* under which calculate_cost looks the material rate up is normalized(M)_rate.
C6_MaterialKey ==
    (/\ call.op # "none"
     /\ call.calc
     /\ call.part_data[1].part_type = "Single Part"
     /\ SuppliedMaterial \in SupportedMaterials)
    => material_rate_key(call.part_data[1].material) = NormalizedMaterialKey(SuppliedMaterial)

\* The grammar of operation rate keys, with the unit of Inspection left open.
GrammarUnit(name, inspection_unit) ==
    CASE name = "Cutting" -> "mm"
      [] name = "Bending" -> "bend"
      [] name = "Assembly" -> "component"
      [] name \in {"Finishing", "Grinding"} -> "mm²"
      [] name = "Drilling" -> "hole"
      [] name = "Punching" -> "punch"
      [] name = "Inspection" -> inspection_unit

GrammarKey(name, sub_option, inspection_unit) ==
    CASE name = "Welding" -> Lower(sub_option) \o "_welding_rate_per_mm"
      [] name = "Coating" -> IF sub_option = "Painting"
                             THEN Lower(sub_option) \o "_rate_per_mm²"
                             ELSE "coating_rate_per_mm²"
      [] OTHER -> Lower(name) \o "_rate_per_" \o GrammarUnit(name, inspection_unit)

\* calculate_cost was called on a part of one enumerated operation with a valid
\* sub-option, and no material or fastener.
OneOperationPriced ==
    /\ call.op = "calculate_cost"
    /\ call.args.part_type = "Assembly"
    /\ Len(call.args.work_centres) = 1
    /\ call.args.fastener_types_and_counts = <<>>
    /\ call.args.work_centres[1][1] \in WorkCentreNames
    /\ call.args.work_centres[1][1] = "Welding" => call.args.work_centres[1][3] \in {"MIG", "TIG"}
    /\ call.args.work_centres[1][1] = "Coating"
       => call.args.work_centres[1][3] \in {"Painting", "Coating"}

\* The call used this key: it fails exactly when the table lacks it, logging
\* it, or holds a dict under it, and otherwise returns the key's
\* rate * operation quantity * quantity.
UsesKey(key) ==
    /\ call.failed <=> (key \notin DOMAIN rates \/ is_dict(rates, key))
    /\ call.failed => call.ret = 0
    /\ key \notin DOMAIN rates => call.missing = key
    /\ ~call.failed
       => call.ret = rates[key] * call.args.work_centres[1][2] * call.args.quantity

\* C7 (as claimed): the rate key calculate_cost uses for an enumerated
\* operation with a valid sub-option is the grammar's, with the unit
\* "inspection" for Inspection.
C7_GrammarPerInspection ==
    OneOperationPriced
    => UsesKey(GrammarKey(call.args.work_centres[1][1], call.args.work_centres[1][3],
                          "inspection"))

\* C7 (amended): the rate key calculate_cost uses for an enumerated operation
\* with a valid sub-option is the grammar's, with the unit "unit" for
\* Inspection: inspection_rate_per_unit.
C7_GrammarPerUnit ==
    OneOperationPriced
    => UsesKey(GrammarKey(call.args.work_centres[1][1], call.args.work_centres[1][3],
                          "unit"))

C7_Witness ==
    /\ OneOperationPriced
    /\ call.args.work_centres[1][1] = "Inspection"
    /\ call.args.quantity = 2
    /\ rates = FullRates
    /\ call.ret = 12

\* C8 (as claimed): a Welding or Coating operation whose sub-option is empty
\* or 'None' is rejected as an error on every path that prices operations, and
\* never priced at a default rate.
C8_MissingSubOptionRejected ==
    (/\ call.op # "none"
     /\ \E i \in 1..Len(Operations) :
            /\ Operations[i][1] \in {"Welding", "Coating"}
            /\ Operations[i][3] \in {"", "None"})
    => /\ call.ret = 0
       /\ call.op = "calculate_cost" => call.failed
       /\ IsCalculateAndSave => call.raised # None

\* C9: an operation whose name is not one of the ten work centres makes the
\* cost computation fail: calculate_cost returns its failure value 0.0
\* whatever the other operations cost, and calculate_and_save, on either path,
\* raises, returns no cost and saves nothing.
C9_UnknownOperationFails ==
    (/\ call.op # "none"
     /\ ~OperationsKnown)
    => /\ call.ret = 0
       /\ call.calc => call.failed
       /\ IsCalculateAndSave => call.raised # None /\ ~call.saved /\ ~call.wrote

C9_Witness ==
    /\ call.op = "logic.calculate_and_save"
    /\ call.args.work_centres = <<Cut, Milling>>
    /\ rates = FullRates
    /\ call.calc
    /\ call.failed
    /\ call.missing = "milling_rate"
    /\ call.raised = "Cost calculation failed, check inputs or rates"

(***************************************************************************)
(* Claims about rejected inputs (SpecCall)                                 *)
(***************************************************************************)

\* The call prices an assembly (logic.py: part_type; GUI: the Assembly tab).
IsAssemblyCall ==
    \/ call.op = "logic.calculate_and_save" /\ call.args.part_type = "Assembly"
    \/ call.op = "gui.calculate_and_save" /\ call.args.tab = 0

\* The sub-parts the call lists, as a sequence of ids; logic.py receives
\* (sub-part id, quantity) pairs, the GUI the selected ids.
SubPartIds ==
    IF call.op = "gui.calculate_and_save"
    THEN call.args.sub_parts
    ELSE [i \in 1..Len(call.args.specs.sub_parts) |-> call.args.specs.sub_parts[i][1]]

SubPartsArePairs ==
    call.op = "logic.calculate_and_save"
    => \A i \in 1..Len(call.args.specs.sub_parts) : Len(call.args.specs.sub_parts[i]) = 2

RegistryIds == {registry[i][1] : i \in 1..Len(registry)}

\* The first listed sub-part that output.txt does not hold.
FirstMissingSubPart ==
    SubPartIds[CHOOSE i \in 1..Len(SubPartIds) :
                   /\ SubPartIds[i] \notin RegistryIds
                   /\ \A j \in 1..(i - 1) : SubPartIds[j] \in RegistryIds]

\* The checks that come before the sub-part check pass: id and revision are
\* given; in the GUI also the quantity, the operation rows and the id format.
GuiRowsAccepted ==
    /\ \E i \in 1..Len(call.args.work_centres) : call.args.work_centres[i][1] # ""
    /\ \A i \in 1..Len(call.args.work_centres) :
           call.args.work_centres[i][1] # ""
           => /\ call.args.work_centres[i][2] # 0
              /\ ~(call.args.work_centres[i][1] \in {"Welding", "Coating"}
                   /\ call.args.work_centres[i][3] = "None")

ReachesSubPartCheck ==
    /\ call.args.part_id # ""
    /\ call.args.revision # ""
    /\ call.op = "gui.calculate_and_save"
       => /\ IsNumber(call.args.quantity)
          /\ Value(call.args.quantity) > 0
          /\ GuiRowsAccepted
          /\ call.args.part_id = "ASSY-CCCCC"

\* C11: an assembly that lists a sub-part id output.txt does not hold is
\* rejected before calculate_cost is called and without anything being saved;
\* the error names the first such sub-part, unless an earlier check of the
\* handler (id and revision given; in the GUI the quantity, operation rows
\* and id format) has already rejected the input.
C11_MissingSubPartRejected ==
    (/\ IsCalculateAndSave
     /\ IsAssemblyCall
     /\ SubPartsArePairs
     /\ \E i \in 1..Len(SubPartIds) : SubPartIds[i] \notin RegistryIds)
    => /\ call.raised # None
       /\ ~call.calc
       /\ ~call.saved
       /\ ~call.wrote
       /\ ReachesSubPartCheck
          => call.raised = "Sub-part " \o FirstMissingSubPart
                              \o " does not exist in the system"

C11_Witness ==
    /\ call.op = "logic.calculate_and_save"
    /\ call.args.part_type = "Assembly"
    /\ call.args.specs.sub_parts = <<<<"PART-AAAAA", 1>>, <<"PART-BBBBB", 1>>>>
    /\ registry = RegisteredParts
    /\ call.raised = "Sub-part PART-BBBBB does not exist in the system"

\* The checks that come before the test for an empty sub-part list pass: id
\* and revision are given; in the GUI also the quantity and the operation rows.
ReachesEmptySubPartsCheck ==
    /\ call.args.part_id # ""
    /\ call.args.revision # ""
    /\ call.op = "gui.calculate_and_save"
       => /\ IsNumber(call.args.quantity)
          /\ Value(call.args.quantity) > 0
          /\ GuiRowsAccepted

\* C12: an assembly with zero sub-parts is rejected and never priced or
\* saved; the error is 'At least one sub-part must be selected for an
\* assembly', unless an earlier check of the handler (id and revision given;
\* in the GUI the quantity and the operation rows) has already rejected the input.
C12_NoSubPartsRejected ==
    (/\ IsCalculateAndSave
     /\ IsAssemblyCall
     /\ Len(SubPartIds) = 0)
    => /\ call.raised # None
       /\ ~call.calc
       /\ call.ret = 0
       /\ ~call.saved
       /\ ~call.wrote
       /\ ReachesEmptySubPartsCheck
          => call.raised = "At least one sub-part must be selected for an assembly"

C12_Witness ==
    /\ call.op = "gui.calculate_and_save"
    /\ call.args.tab = 0
    /\ call.args.part_id = "ASSY-CCCCC"
    /\ call.args.quantity = <<1>>
    /\ call.args.work_centres = <<<<"Assembly", 2, "None">>>>
    /\ call.args.sub_parts = <<>>
    /\ rates = FullRates
    /\ call.raised = "At least one sub-part must be selected for an assembly"

\* The call prices a single part (logic.py: part_type; GUI: the Single Part tab).
IsSinglePartCall ==
    \/ call.op = "logic.calculate_and_save" /\ call.args.part_type = "Single Part"
    \/ call.op = "gui.calculate_and_save" /\ call.args.tab = 1

\* The dimensions and the quantity a single-part call was given (the GUI's
\* quantity as the number its text parses to).
GivenDimensions ==
    IF call.op = "gui.calculate_and_save"
    THEN [thickness |-> call.args.thickness, length |-> call.args.length,
          width |-> call.args.width, quantity |-> Value(call.args.quantity)]
    ELSE [thickness |-> call.args.specs.thickness, length |-> call.args.specs.length,
          width |-> call.args.specs.width, quantity |-> call.args.specs.quantity]

\* The messages of the fields that are out of range.
RangeMessages ==
    (IF GivenDimensions.thickness < 1 \/ GivenDimensions.thickness > 3
     THEN {"Thickness must be between 1.0 and 3.0 mm"} ELSE {})
    \cup (IF GivenDimensions.length < 50 \/ GivenDimensions.length > 3000
          THEN {"Lay-Flat length must be between 50 and 3000 mm"} ELSE {})
    \cup (IF GivenDimensions.width < 50 \/ GivenDimensions.width > 1500
          THEN {"Lay-Flat width must be between 50 and 1500 mm"} ELSE {})
    \cup (IF GivenDimensions.quantity < 1
          THEN {"Quantity must be a positive integer"} ELSE {})

\* The checks that come before the range checks pass: in logic.py id and
\* revision are given and the material is a supported one.
ReachesRangeChecks ==
    call.op = "logic.calculate_and_save"
    => /\ call.args.part_id # ""
       /\ call.args.revision # ""
       /\ call.args.specs.material \in {"Mild Steel", "Aluminium", "Stainless Steel"}

\* C13: for a Single Part with a thickness outside [1, 3], a length outside
\* [50, 3000], a width outside [50, 1500] or a quantity < 1, calculate_and_save
\* fails before any rate lookup: calculate_cost is not called and nothing is
\* saved; the error is the message of a field that is out of range, unless an
\* earlier check (logic.py: id and revision given, material supported) has
\* already rejected the input.
C13_RangeValidation ==
    (/\ IsCalculateAndSave
     /\ IsSinglePartCall
     /\ call.op = "gui.calculate_and_save" => IsNumber(call.args.quantity)
     /\ RangeMessages # {})
    => /\ call.raised # None
       /\ ~call.calc
       /\ call.ret = 0
       /\ ~call.saved
       /\ ~call.wrote
       /\ ReachesRangeChecks => call.raised \in RangeMessages

C13_Witness ==
    /\ call.op = "logic.calculate_and_save"
    /\ call.args.part_id = "PART-AAAAA"
    /\ call.args.specs.material = "Mild Steel"
    /\ call.args.specs.thickness = 4
    /\ call.args.specs.length = 50
    /\ rates = FullRates
    /\ call.raised = "Thickness must be between 1.0 and 3.0 mm"

(***************************************************************************)
(* Claims about quotes (Spec)                                              *)
(***************************************************************************)

IsGenerateQuote == call.op \in {"logic.generate_quote", "gui.generate_quote"}

\* The validation messages of the defects a generate_quote call's input has;
\* only logic.generate_quote takes a list of parts.
QuoteDefectMessages ==
    (IF call.args.customer_name = "" THEN {"Customer name cannot be empty"} ELSE {})
    \cup (IF ~IsNumber(call.args.profit_margin)
          THEN {IF call.op = "logic.generate_quote"
                THEN "Profit margin must be a valid number"
                ELSE "Invalid profit margin: please enter a numeric value"}
          ELSE IF Value(call.args.profit_margin) < 0
               THEN {"Profit margin cannot be negative"} ELSE {})
    \cup (IF call.op = "logic.generate_quote" /\ added_parts = <<>>
          THEN {"No parts added to quote"} ELSE {})

\* C14: generate_quote fails with a validation error, and save_quote is not
\* called, whenever the customer name is empty, the profit margin is negative
\* or not a number, or the list of priced parts is empty.
C14_QuoteValidation ==
    (IsGenerateQuote /\ QuoteDefectMessages # {})
    => /\ call.raised \in QuoteDefectMessages
       /\ ~call.saved
       /\ call.ret = 0

C14_Witness ==
    /\ call.op = "logic.generate_quote"
    /\ call.args.customer_name = "Acme"
    /\ call.args.profit_margin = <<-5>>
    /\ Len(added_parts) = 1
    /\ call.raised = "Profit margin cannot be negative"

(***************************************************************************)
(* Claims about failed calls (Spec)                                        *)
(***************************************************************************)

\* C15: every error aborts the whole computation: a calculate_and_save call
\* that fails (validation error, empty rate table, missing rate, failed cost
\* computation) returns no cost, has not called save_output, and leaves
\* added_parts, and the registry, exactly as they were before the call.
C15_FailureLeavesNoTrace ==
    [][(call'.op \in {"logic.calculate_and_save", "gui.calculate_and_save"}
        /\ call'.raised # None)
       => /\ call'.ret = 0
          /\ ~call'.saved
          /\ ~call'.wrote
          /\ added_parts' = added_parts
          /\ registry' = registry]_vars

\* A cost computation that failed on a missing rate, after a part was added.
C15_Witness ==
    /\ call.op = "logic.calculate_and_save"
    /\ call.raised = "Cost calculation failed, check inputs or rates"
    /\ call.calc
    /\ call.failed
    /\ Len(added_parts) = 1

(***************************************************************************)
(* Claims about rate entries (SpecCall)                                    *)
(***************************************************************************)

\* A calculate_cost call on a part with the one operation Cutting and
\* nothing else to price, under a table that holds the cutting rate.
OneCuttingPriced ==
    /\ call.op = "calculate_cost"
    /\ call.args.part_type = "Assembly"
    /\ Len(call.args.work_centres) = 1
    /\ call.args.work_centres[1][1] = "Cutting"
    /\ call.args.fastener_types_and_counts = <<>>
    /\ "cutting_rate_per_mm" \in DOMAIN rates

\* The shape of the cutting entry: a float is a flat multiplier.
CuttingEntryType ==
    IF is_dict(rates, "cutting_rate_per_mm")
    THEN rates["cutting_rate_per_mm.type"] ELSE "simple"
CuttingSubValue == rates["cutting_rate_per_mm.sub_value"]
CuttingUnits == call.args.work_centres[1][2] * call.args.quantity

\* C16 (as claimed): the rate lookup goes by the entry's shape: under an
\* 'hourly' entry with sub-value s > 0 a quantity n is priced at
\* value * (n / s), under a 'simple' entry at value * n, and an hourly entry
\* with s <= 0 makes the computation fail.
C16_EntryShape ==
    OneCuttingPriced
    => IF CuttingEntryType = "simple"
       THEN call.ret = rates["cutting_rate_per_mm"] * CuttingUnits
       ELSE IF CuttingSubValue > 0
       THEN call.ret * CuttingSubValue = rates["cutting_rate_per_mm"] * CuttingUnits
       ELSE call.failed

(***************************************************************************)
(* Claims about the shared registry (SpecShared)                           *)
(***************************************************************************)

\* The sub-parts of the assembly a finished calculate_and_save saved.
SavedSubParts ==
    {call.args.specs.sub_parts[i][1] : i \in 1..Len(call.args.specs.sub_parts)}

\* C17 (as claimed): a computation sees one state of output.txt, though
\* another writer rewrites the file during the call: the total of a
\* finished generate_quote is the total of its parts at the costs of one of
\* the contents the file had at the call's reads, and the sub-parts a
\* finished calculate_and_save found registered are in the file its
\* save_output appended to.
C17_SnapshotReads ==
    /\ (call.op = "logic.generate_quote" /\ call.pc = "done" /\ call.raised = None)
       => \E i \in 1..Len(call.read) :
              /\ MissingCost(added_parts, call.read[i]) = None
              /\ call.ret = final_cost(quote_total(added_parts, call.read[i], 1),
                                       Value(call.args.profit_margin))
    /\ (/\ call.op = "logic.calculate_and_save" /\ call.pc = "done"
        /\ call.raised = None /\ call.args.part_type = "Assembly")
       => SavedSubParts \subseteq load_existing_parts(call.read[Len(call.read)])

(***************************************************************************)
(* Claims about the cost as a function of its input (SpecCall)             *)
(***************************************************************************)

\* part_data with d more of its i-th operation, all else the same.
MoreOf(part_data, i, d) ==
    [part_data EXCEPT !.work_centres[i][2] = @ + d]

\* A Single Part was priced, under a table that holds every key it needs.
SinglePartPriced ==
    /\ call.op # "none"
    /\ call.calc
    /\ call.op = "calculate_cost" \/ call.raised = None
    /\ call.part_data[1].part_type = "Single Part"
    /\ NeededKeys(call.part_data[1]) \subseteq DOMAIN rates

\* C18 (as claimed): monotonicity: for a valid Single Part and a rate table that holds
\* every key the part needs, a larger quantity of any one operation, all
\* other fields the same, never makes calculate_cost return less.
C18_Monotonic ==
    SinglePartPriced
    => \A i \in 1..Len(call.part_data[1].work_centres), d \in 1..MaxIncrease :
           calculate_cost(MoreOf(call.part_data[1], i, d), rates) >= call.ret

\* C19 (as claimed): calculate_cost returns 0.0 for every Single Part whose
\* thickness lies outside 1.0-3.0 mm, whatever rates the table holds.
C19_ThicknessOutOfRangeZero ==
    (/\ call.op = "calculate_cost"
     /\ call.args.part_type = "Single Part"
     /\ ~(call.args.thickness \in 1..3))
    => call.ret = 0

(***************************************************************************)
(* Claims about the rate store (SpecRates)                                 *)
(***************************************************************************)

\* The call just made is an update_rate, and what it was given.
IsUpdateRate(c) == c.op \in {"gui.update_rate", "logic.update_rate"}
RateKeyGiven(c) == c.args.rate_key
RateValueGiven(c) == c.args.rate_value

\* The entry of the key is an hourly rate with a sub-field.
HourlyWithSubField(r, key) ==
    /\ key \in DOMAIN r
    /\ is_dict(r, key)
    /\ r[key \o ".type"] = "hourly"
    /\ (key \o ".sub_field") \in DOMAIN r

\* The input has one of the defects update_rate is to reject, given the
\* table r the call found.
UpdateDefect(c, r) ==
    \/ RateKeyGiven(c) \in {"", "Select Rate Key"}
    \/ ~IsNumber(RateValueGiven(c))
    \/ Value(RateValueGiven(c)) < 0
    \/ /\ c.op = "logic.update_rate"
       /\ HourlyWithSubField(r, RateKeyGiven(c))
       /\ \/ ~IsNumber(c.args.sub_value)
          \/ Value(c.args.sub_value) <= 0

\* C20 (as claimed): update_rate rejects an unselected or empty key, a value
\* that is no number or negative and, for an hourly rate with a sub-field, a
\* sub-value that is no number or not positive; a rejected call does not
\* call update_rates and leaves the rate store as it was, and an accepted
\* call calls update_rates with the key and the parsed value.
C20_UpdateRate ==
    [][IsUpdateRate(call')
       => IF UpdateDefect(call', rates)
          THEN /\ call'.raised # None
               /\ ~call'.updated
               /\ rates' = rates
          ELSE /\ call'.updated
               /\ RateKeyGiven(call') \in DOMAIN rates'
               /\ rates'[RateKeyGiven(call')] = Value(RateValueGiven(call'))]_vars

(***************************************************************************)
(* Claims about the screens of the GUI (SpecGui)                           *)
(***************************************************************************)

\* C21: login changes the role only when both fields are filled in and
\* validate_credentials accepts them; it then sets the role to 'Admin' and
\* shows the admin screen if and only if the username is 'admin', and sets
\* 'User' and shows the part input screen otherwise.  With an empty field or
\* rejected credentials the role stays None and the login screen remains.
C21_LoginOutcome ==
    [][(call'.op = "gui.login" /\ screen = "login")
       => IF /\ call'.args.username # ""
             /\ call'.args.password # ""
             /\ validate_credentials(call'.args.username, call'.args.password)
          THEN /\ (role' = "Admin") <=> (call'.args.username = "admin")
               /\ (role' = "User") <=> (call'.args.username # "admin")
               /\ (screen' = "admin") <=> (role' = "Admin")
               /\ (screen' = "part_input") <=> (role' = "User")
               /\ call'.raised = None
          ELSE /\ role = None
               /\ role' = None
               /\ screen' = "login"
               /\ call'.raised # None]_vars

\* laurie has logged in.
C21_Witness ==
    /\ call.op = "gui.login"
    /\ call.args.username = "laurie"
    /\ call.raised = None
    /\ role = "User"
    /\ screen = "part_input"

(***************************************************************************)
(* Claims about the records of the registry (Spec)                         *)
(***************************************************************************)

\* The part ids of the lines of a registry, and the lines of one id.
IdsOf(reg) == {reg[i][1] : i \in 1..Len(reg)}
LinesOf(part_id, reg) == {i \in 1..Len(reg) : reg[i][1] = part_id}

C23_AddedPartRecorded ==
    [][(call'.op = "logic.calculate_and_save" /\ call'.raised = None)
       => /\ added_parts' = Append(added_parts, [part_id |-> call'.args.part_id,
                                                 quantity |-> call'.args.specs.quantity])
          /\ call'.wrote
          /\ HasCost(call'.args.part_id, registry')
          /\ load_part_cost(call'.args.part_id, registry') = call'.ret]_vars


(***************************************************************************)
(* C24: a valid assembly can be priced by logic.calculate_and_save.        *)
(***************************************************************************)

\* The call is logic.calculate_and_save for an assembly that is valid: a
\* well-formed ASSY- id, a revision, a quantity of at least 1, operations
\* whose rates are all present, and a non-empty list of sub-parts that are
\* all in the registry the call read.
ValidAssemblyCall ==
    /\ call.op = "logic.calculate_and_save"
    /\ call.args.part_type = "Assembly"
    /\ MatchesIdFormat(call.args.part_id, "ASSY-")
    /\ call.args.revision # ""
    /\ call.args.specs.quantity >= 1
    /\ call.args.work_centres # <<>>
    /\ \A i \in 1..Len(call.args.work_centres) :
           LET key == rate_key(call.args.work_centres[i][1], call.args.work_centres[i][3])
           IN  key \in DOMAIN rates /\ ~is_dict(rates, key) /\ rates[key] > 0
    /\ call.args.specs.sub_parts # <<>>
    /\ \A i \in 1..Len(SubPartIds) : SubPartIds[i] \in RegistryIds \ {call.args.part_id}

\* The ways of writing the listed sub-parts as entries of specs['sub_parts']:
\* each entry a (sub-part id, quantity) pair or an (id, name, count) triple.
Representations ==
    {[i \in 1..Len(SubPartIds) |->
          IF shape[i] = 2 THEN <<SubPartIds[i], 1>> ELSE <<SubPartIds[i], "part", 1>>] :
     shape \in [1..Len(SubPartIds) -> {2, 3}]}

\* C24: whenever logic.calculate_and_save is called for a valid assembly,
\* some representation of the same sub-parts exists with which the call
\* returns a cost instead of raising.
C24_ValidAssemblyPriced ==
    ValidAssemblyCall
    => \E rep \in Representations :
           LogicOutcome([call.args EXCEPT !.specs.sub_parts = rep],
                        IF call.saved THEN SubSeq(registry, 1, Len(registry) - 1) ELSE registry,
                        rates).raised = None


(***************************************************************************)
(* C25: 'Cost calculation failed' is reported only for a failed            *)
(* calculation.                                                            *)
(***************************************************************************)

\* C25: a calculate_and_save that raises 'Cost calculation failed, check
\* inputs or rates' follows a calculate_cost that took one of its failure
\* returns; a cost that was computed from present rates, zero included, is
\* never reported as a failure.
C25_FailedOnlyOnFailure ==
    /\ call.op \in {"logic.calculate_and_save", "gui.calculate_and_save"}
    /\ call.raised = "Cost calculation failed, check inputs or rates"
    => call.failed


(***************************************************************************)
(* C26: the bound 0..100 on fastener counts.                               *)
(***************************************************************************)

\* The counts the call was given: of the fasteners in
\* fastener_types_and_counts and of the catalogue items in a single part's
\* sub_parts (logic.py), or the Fastener Count entry next to a chosen
\* fastener type (GUI).
FastenerCounts ==
    IF call.op = "logic.calculate_and_save"
    THEN {call.args.specs.fastener_types_and_counts[i][2] :
              i \in 1..Len(call.args.specs.fastener_types_and_counts)}
         \cup {call.args.specs.sub_parts[i][3] :
                   i \in {j \in 1..Len(call.args.specs.sub_parts) :
                              /\ call.args.part_type = "Single Part"
                              /\ Len(call.args.specs.sub_parts[j]) = 3}}
    ELSE IF /\ call.op = "gui.calculate_and_save"
            /\ call.args.tab = 1
            /\ call.args.fastener_type # "None"
            /\ IsNumber(call.args.fastener_count)
    THEN {Value(call.args.fastener_count)}
    ELSE {}

\* C26: a calculate_and_save given a fastener or catalogue item whose count
\* is above 100 or negative is rejected: it raises, and the part is neither
\* priced nor saved.
C26_FastenerCountBound ==
    (\E count \in FastenerCounts : count > 100 \/ count < 0)
    => /\ call.raised # None
       /\ ~call.calc
       /\ ~call.saved


(***************************************************************************)
(* Claims about concurrent saves (SpecSave)                                *)
(***************************************************************************)

\* C27: under any interleaving of two save_output calls for the same part
\* id, the registry ends up with at most one record for that id.
C27_ConcurrentSaveUnique ==
    (/\ call.procs[1].pc # "idle"
     /\ call.procs[2].pc # "idle"
     /\ call.procs[1].part_id = call.procs[2].part_id)
    => Cardinality(LinesOf(call.procs[1].part_id, registry)) <= 1


(***************************************************************************)
(* Claims about concurrent rate updates (SpecStore)                        *)
(***************************************************************************)

\* The update_rates call p rewrote the file in this step.
WroteRates(p) == call.procs[p].pc = "write" /\ call'.procs[p].pc = "done"

\* C28: an accepted update_rates(k, v) sets k to v and leaves every other
\* key and its value as the store held them, also when reading the store
\* failed and when two updates of different keys interleave.
C28_UpdateFrame ==
    [][\A p \in Procs :
           WroteRates(p)
           => /\ DOMAIN rates' = DOMAIN rates \cup {call.procs[p].rate_key}
              /\ rates'[call.procs[p].rate_key] = call.procs[p].rate_value
              /\ \A key \in DOMAIN rates \ {call.procs[p].rate_key} :
                     rates'[key] = rates[key]]_vars


(***************************************************************************)
(* Claims about admin access (SpecGui)                                     *)
(***************************************************************************)

\* The command recorded in c had validate_credentials accept a username and
\* password with the username 'admin': at login, or in the dialog of Settings.
AdminCredentialsAccepted(c) ==
    IF c.op = "gui.login"
    THEN /\ c.args.username = "admin"
         /\ validate_credentials(c.args.username, c.args.password)
    ELSE /\ c.op = "gui.go_to_settings"
         /\ c.args # Cancel
         /\ c.args[1] = "admin"
         /\ validate_credentials(c.args[1], c.args[2])

\* C29: the role becomes 'Admin' only by a command in which
\* validate_credentials accepted credentials of 'admin'; the admin screen is
\* shown only to the role 'Admin'; and go_back_to_login resets the role to
\* None, so that the acceptance lies after the last return to the login
\* screen.
C29_AdminAccess ==
    [][/\ (role' = "Admin" /\ role # "Admin") => AdminCredentialsAccepted(call')
       /\ screen' = "admin" => role' = "Admin"
       /\ screen' = "login" => role' = None]_vars


(***************************************************************************)
(* Claims about the Submit button (SpecGui)                                *)
(***************************************************************************)

\* C30: the Submit button is enabled only while last_part_id and
\* last_total_cost hold the id and the non-zero cost of a calculate_and_save
\* whose record output.txt holds; it is disabled on a part input screen just
\* created and after reset_part_input; and Submit never opens the quote
\* screen with a part id or a cost of None.
C30_SubmitEnabled ==
    [][/\ submit_state' = "normal"
          => /\ last_part_id' # None
             /\ last_total_cost' # <<>>
             /\ Value(last_total_cost') # 0
             /\ HasCost(last_part_id', registry')
             /\ load_part_cost(last_part_id', registry') = Value(last_total_cost')
       /\ (screen # "part_input" /\ screen' = "part_input") => submit_state' = "disabled"
       /\ call'.op = "gui.reset_part_input" => submit_state' = "disabled"
       /\ call'.op = "gui.create_quote_screen"
          => /\ call'.args.part_id # None
             /\ call'.args.total_cost # <<>>]_vars

====
